---- MODULE Spec2Model ----
(***************************************************************************)
(* Revision-aware event store of the scraper (src/event_store.py) and the  *)
(* connections that read and write its SQLite file.                        *)
(*                                                                         *)
(* The table `events` is a bag of rows.  Texts that SQLite compares or     *)
(* orders (release_date, vintage, release_time_utc) are compared by their  *)
(* bytes, as the BINARY collation of a TEXT column does.  A timestamp text *)
(* is kept in three parts: the fixed-width wall clock reading              *)
(* "YYYY-MM-DDTHH:MM:SS" as a number of seconds, the fraction ".ffffff"    *)
(* and the suffix ("", "Z", "+00:00", ...).  Two such texts compare first  *)
(* by the wall clock digits and then by the bytes that follow them.        *)
(* datetime.fromisoformat is the one of Python >= 3.11, which reads the    *)
(* "Z" suffix that the providers and the integration test write.           *)
(*                                                                         *)
(* The scoring engine (src/scoring.py) and the scale converter of the      *)
(* bridge (src/bridge_scraper_to_backend.py) compute with floats: a float  *)
(* is held in ten-thousandths, and the decay weight, which spans the whole *)
(* exponent range of a double, as mantissa and exponent.                   *)
(***************************************************************************)
EXTENDS Integers, Sequences, FiniteSets, Bags, TLC

VARIABLES
    events,   \* rows of table events committed to the database file
    now,      \* the wall clock, UTC: [sec, us]
    last,     \* the last call on the EventStore: [op, arg, ret, effect]
    conn,     \* per writer connection: [pc, ev, txn, ret, waited, calls]
    lock,     \* the connection holding the write lock of the file, or None
    committer,\* the connection that committed last, or None
    loaded,   \* what the last load_scraper_events returned
    backend,  \* tables of the backend database: [assets, events, indicators, scores]
    runs,     \* how many times the bridge has run
    running,  \* AutomationScheduler.running
    config,   \* AutomationScheduler.config: [check_interval, jobs]
    walltime, \* datetime.now() of the scheduler, in seconds since midnight
    loop,     \* where run_scheduler stands: [pc, since, current_time, i, wake]
    running_jobs, \* JobExecutor.running_jobs: job name -> task
    tasks,    \* the tasks of execute_job that exist, by task id
    job_history, \* AutomationScheduler.job_history
    starts,   \* every create_task so far: <<job name, current_time>>
    signalled,\* a SIGINT or SIGTERM was handled
    active_alerts, \* AlertManager.active_alerts: alert id -> alert
    alert_history, \* AlertManager.alert_history
    metrics_history, \* MonitoringSystem.metrics_history, check by check
    notified, \* the alerts handed to send_notifications so far
    providers, \* ProviderRegistry._providers: series id -> list of providers
    bridges   \* the bridge processes on one backend: each one's place in process_events

\* The state of the bridge, the state of the scheduler and the state of the monitoring system.
bridge == <<backend, runs, bridges>>

scheduler ==
    <<running, config, walltime, loop, running_jobs, tasks, job_history, starts, signalled>>

monitor == <<active_alerts, alert_history, metrics_history, notified>>

vars == <<events, now, conn, lock, committer, loaded, bridge, scheduler, monitor, providers, last>>

None == "None"

\* ------------------------------------------------------------ bounds
MaxTime == 1
MaxRows == 2
MaxCalls == 1

\* Calls of add_event on one store where storage failures are followed.
MaxAdds == 2

\* Runs of the bridge against one backend database.
MaxRuns == 2

\* Steps of the scheduler's clock.
MaxTicks == 4

\* Passes of the monitoring loop.
MaxChecks == 4

\* ------------------------------------------------------------ texts
\* The bytes of the texts the model uses (ASCII).
Bytes(s) ==
    CASE s = "" -> <<>>
      [] s = "Z" -> <<90>>
      [] s = "+00:00" -> <<43, 48, 48, 58, 48, 48>>
      [] s = "+00:00:01" -> <<43, 48, 48, 58, 48, 48, 58, 48, 49>>
      [] s = "-00:00:01" -> <<45, 48, 48, 58, 48, 48, 58, 48, 49>>
      [] s = ".500000" -> <<46, 53, 48, 48, 48, 48, 48>>
      [] s = "final" -> <<102, 105, 110, 97, 108>>
      [] s = "flash" -> <<102, 108, 97, 115, 104>>
      [] s = "prelim" -> <<112, 114, 101, 108, 105, 109>>
      [] s = "2024-01-15" -> <<50, 48, 50, 52, 45, 48, 49, 45, 49, 53>>
      [] s = "2024-02-15" -> <<50, 48, 50, 52, 45, 48, 50, 45, 49, 53>>
      [] s = "1970-01-01" -> <<49, 57, 55, 48, 45, 48, 49, 45, 48, 49>>
      [] s = "1970-01-02" -> <<49, 57, 55, 48, 45, 48, 49, 45, 48, 50>>

\* memcmp order of two byte sequences, the shorter first when one is a prefix.
TextLess(a, b) ==
    LET n == IF Len(a) < Len(b) THEN Len(a) ELSE Len(b)
        diff == {i \in 1..n : a[i] # b[i]}
    IN  IF diff = {}
        THEN Len(a) < Len(b)
        ELSE LET i == CHOOSE j \in diff : \A k \in diff : j <= k
             IN  a[i] < b[i]

TextLE(a, b) == a = b \/ TextLess(a, b)

\* The bytes of an ISO text after its 19 wall clock characters.
IsoTail(t) == (IF t.frac = 0 THEN <<>> ELSE Bytes(".500000")) \o Bytes(t.suffix)

\* t <= u as SQLite compares two TEXT values holding ISO timestamps.
IsoLE(t, u) ==
    \/ t.wall < u.wall
    \/ t.wall = u.wall /\ TextLE(IsoTail(t), IsoTail(u))

\* ------------------------------------------------------------ datetime
\* A datetime is [wall, us, tz]: tz is "naive" for a datetime without tzinfo
\* and the text of its utcoffset otherwise.
\* tzinfo that fromisoformat gives for a suffix ("Z" is timezone.utc).
TzOfSuffix(suffix) ==
    CASE suffix = "" -> "naive"
      [] suffix = "Z" -> "+00:00"
      [] OTHER -> suffix

\* utcoffset in seconds
OffsetSeconds(tz) ==
    CASE tz = "+00:00" -> 0
      [] tz = "+00:00:01" -> 1
      [] tz = "-00:00:01" -> -1

\* datetime.fromisoformat: text -> datetime
fromisoformat(t) == [wall |-> t.wall, us |-> t.frac, tz |-> TzOfSuffix(t.suffix)]

\* datetime.isoformat: datetime -> text
isoformat(d) ==
    [wall |-> d.wall, frac |-> d.us, suffix |-> IF d.tz = "naive" THEN "" ELSE d.tz]

\* datetime.now(timezone.utc)
utcnow == [wall |-> now.sec, us |-> now.us, tz |-> "+00:00"]

\* The instant of an aware datetime, in seconds of UTC.
UtcSeconds(d) == d.wall - OffsetSeconds(d.tz)

\* a > b for two aware datetimes: compared as instants.
After(a, b) ==
    \/ UtcSeconds(a) > UtcSeconds(b)
    \/ UtcSeconds(a) = UtcSeconds(b) /\ a.us > b.us

\* d - timedelta(seconds = n)
MinusSeconds(d, n) == [d EXCEPT !.wall = @ - n]

\* ------------------------------------------------------------ rows
Key(r) == <<r.series_id, r.release_date, r.vintage>>

Rows(b) == BagToSet(b)

RowsOfKey(b, k) == {r \in Rows(b) : Key(r) = k}

\* The rows of b that satisfy keep(r), with their copies.
Restrict(b, S) == [r \in S |-> b[r]]

\* INSERT without conflict clause on a table without key.
InsertPlain(b, row) == b (+) SetToBag({row})

\* REPLACE resolving the conflict on (series_id, release_date) only.
InsertOrReplaceByDate(b, row) ==
    Restrict(b, {r \in Rows(b) : <<r.series_id, r.release_date>>
                                   # <<row.series_id, row.release_date>>})
        (+) SetToBag({row})

\* INSERT OR REPLACE under PRIMARY KEY(series_id, release_date, vintage):
\* the rows in conflict with the new one are deleted, then it is inserted.
InsertOrReplace(b, row) ==
    Restrict(b, {r \in Rows(b) : Key(r) # Key(row)}) (+) SetToBag({row})

\* ORDER BY release_date ASC, vintage ASC
OrderLE(r, q) ==
    \/ TextLess(Bytes(r.release_date), Bytes(q.release_date))
    \/ /\ r.release_date = q.release_date
       /\ TextLE(Bytes(r.vintage), Bytes(q.vintage))

RECURSIVE OrderBy(_)
OrderBy(b) ==
    IF Rows(b) = {} THEN <<>>
    ELSE LET first == CHOOSE r \in Rows(b) : \A q \in Rows(b) : OrderLE(r, q)
         IN  <<first>> \o OrderBy(b (-) SetToBag({first}))

\* WHERE series_id = ? AND release_time_utc <= ?
Where(b, series_id, bound) ==
    Restrict(b, {r \in Rows(b) : /\ r.series_id = series_id
                                 /\ IsoLE(r.release_time_utc, bound)})

\* What list(fetch_events(series_id, as_of)) is on table b.
FetchEvents(b, series_id, as_of) ==
    LET asof == IF as_of = <<>> THEN utcnow ELSE as_of[1]
    IN  OrderBy(Where(b, series_id, isoformat(asof)))

\* add_event with `rt >= now` in place of `rt > now`.
AddOutcomeNotBefore(event) ==
    LET rt == fromisoformat(event.release_time_utc)
    IN  IF rt.tz = "naive" THEN "TypeError"
        ELSE IF ~After(utcnow, rt) THEN "ValueError"
        ELSE "ok"

\* add_event without the comparison with the clock.
AddOutcomeAnyTime(event) ==
    IF fromisoformat(event.release_time_utc).tz = "naive" THEN "TypeError" ELSE "ok"

\* What add_event(event) raises, "ok" when it raises nothing.
AddOutcome(event) ==
    LET rt == fromisoformat(event.release_time_utc)
    IN  IF rt.tz = "naive" THEN "TypeError"
        ELSE IF After(rt, utcnow) THEN "ValueError"
        ELSE "ok"

\* What the call did to the row of its key.
Effect(b, row) ==
    IF BagIn(row, b) THEN "same"
    ELSE IF RowsOfKey(b, Key(row)) # {} THEN "replace"
    ELSE "insert"

\* ------------------------------------------------------------ inputs
Series == {"US_CPI", "US_GDP"}
Dates == {"2024-01-15", "2024-02-15"}
Vintages == {"flash", "prelim", "final"}

Stamp(wall, suffix) == [wall |-> wall, frac |-> 0, suffix |-> suffix]

\* An Event; the Optional[float] fields are <<>> for None and <<x>> for x.
Ev(s, d, v, a, t, p) ==
    [series_id |-> s, release_date |-> d, vintage |-> v, actual |-> a,
     consensus |-> <<>>, previous |-> <<>>, impact |-> "mid",
     release_time_utc |-> t, provider |-> p]

\* The releases the store is fed: every vintage of two US_CPI releases and
\* one US_GDP release.
Releases ==
    ({"US_CPI"} \X Dates \X Vintages) \cup {<<"US_GDP", "2024-01-15", "final">>}

\* Their events, published at any second of the clock and stamped in UTC.
Events ==
    {Ev(k[1], k[2], k[3], 1, Stamp(w, "+00:00"), "fred") :
        k \in Releases, w \in 0..MaxTime}

\* as_of: Optional[datetime], <<>> for None and <<d>> for the datetime d
AsOfs == {<<>>} \cup {<<[wall |-> w, us |-> 0, tz |-> "+00:00"]>> : w \in 0..MaxTime}

Clock == {[sec |-> s, us |-> 0] : s \in 0..MaxTime}

\* One release of each series in every text form of its release time: naive,
\* "Z" as the providers write it, "+00:00", and one second east and west of UTC.
Suffixes == {"", "Z", "+00:00", "+00:00:01", "-00:00:01"}

IsoEvents ==
    {Ev(s, "2024-01-15", "final", 1, Stamp(w, x), "fred") :
        s \in Series, w \in 0..MaxTime, x \in Suffixes}

\* datetime.now has microseconds.
Micros == {0, 500000}

UtcTimes == {[wall |-> w, us |-> u, tz |-> "+00:00"] : w \in 0..MaxTime, u \in Micros}

IsoAsOfs == {<<>>} \cup {<<d>> : d \in UtcTimes}

IsoClock == {[sec |-> s, us |-> u] : s \in 0..MaxTime, u \in Micros}

\* Two processes that each hold an EventStore on the same database file.
Writers == {"w1", "w2"}

\* What they add: one release of each series, as two providers report it.
ConcEvents ==
    {Ev(s, "2024-01-15", "final", 1, Stamp(0, "+00:00"), "fred") : s \in Series}
        \cup {Ev(s, "2024-01-15", "final", 2, Stamp(0, "+00:00"), "worldbank") :
                    s \in Series}

\* ------------------------------------------------------------ initial states
\* BridgeProcessor.__init__ creates the tables of the backend, empty.
InitBackend ==
    /\ backend = [assets |-> {}, events |-> {}, indicators |-> {}, scores |-> {}]
    /\ runs = 0
    /\ bridges = <<>>

\* AutomationScheduler.__init__
InitScheduler ==
    /\ running = FALSE
    /\ config = [check_interval |-> 60, jobs |-> <<>>]
    /\ walltime = 0
    /\ loop = [pc |-> "init", since |-> 0, current_time |-> 0, i |-> 0, wake |-> 0]
    /\ running_jobs = <<>>
    /\ tasks = <<>>
    /\ job_history = <<>>
    /\ starts = <<>>
    /\ signalled = FALSE

\* AlertManager.__init__
InitMonitor ==
    /\ active_alerts = <<>>
    /\ alert_history = <<>>
    /\ metrics_history = <<>>
    /\ notified = <<>>

\* ProviderRegistry.__init__
InitRegistry ==
    providers = <<>>

\* ------------------------------------------------------------ actions
\* A connection outside any call, nothing written and nothing pending.
Idle == [pc |-> "idle", ev |-> None, txn |-> None, ret |-> None, waited |-> FALSE,
         calls |-> 0]

NoCall == [op |-> "none", arg |-> None, ret |-> None, effect |-> None]

Init ==
    /\ events = EmptyBag
    /\ now = [sec |-> 0, us |-> 0]
    /\ last = NoCall
    /\ conn = [w \in Writers |-> Idle]
    /\ lock = None
    /\ committer = None
    /\ loaded = <<>>
    /\ InitBackend /\ InitScheduler /\ InitMonitor /\ InitRegistry

\* EventStore.add_event on a store nobody else writes.
add_event(event) ==
    LET out == AddOutcome(event)
        after == IF out = "ok" THEN InsertOrReplace(events, event) ELSE events
    IN  /\ BagCardinality(after) <= MaxRows
        /\ events' = after
        /\ last' = [op |-> "add_event", arg |-> event, ret |-> out,
                    effect |-> IF out = "ok" THEN Effect(events, event) ELSE None]
        /\ UNCHANGED <<now, conn, lock, committer, loaded, bridge, scheduler, monitor, providers>>

\* list(EventStore.fetch_events(series_id, as_of))
fetch_events(series_id, as_of) ==
    /\ last' = [op |-> "fetch_events", arg |-> <<series_id, as_of>>,
                ret |-> FetchEvents(events, series_id, as_of), effect |-> None]
    /\ UNCHANGED <<events, now, conn, lock, committer, loaded, bridge, scheduler, monitor, providers>>

\* Time passes.
Tick(t) ==
    /\ \/ t.sec > now.sec
       \/ t.sec = now.sec /\ t.us > now.us
    /\ now' = t
    /\ UNCHANGED <<events, last, conn, lock, committer, loaded, bridge, scheduler, monitor, providers>>

Next ==
    \/ \E e \in Events : add_event(e)
    \/ \E s \in Series, a \in AsOfs : fetch_events(s, a)
    \/ \E t \in Clock : Tick(t)

Spec == Init /\ [][Next]_vars

\* The same store fed with every text form of release_time_utc.
NextIso ==
    \/ \E e \in IsoEvents : add_event(e)
    \/ \E s \in Series, a \in IsoAsOfs : fetch_events(s, a)
    \/ \E t \in IsoClock : Tick(t)

SpecIso == Init /\ [][NextIso]_vars

\* ------------------------------------------------------------ connections
\* add_event step by step, for stores that share the database file.  A write
\* statement takes the write lock of the file and works on the connection's
\* own pages (txn) until commit publishes them.

\* conn.commit(): the pages of the transaction become the file.
CommitDropped(db, txn) == db

Committed(db, txn) == txn

\* What the connection w reads: its own pages while it has a transaction open
\* (it then holds the write lock), the file otherwise.
View(w) == IF lock = w THEN conn[w].txn ELSE events

\* add_event up to the time check (lines 56-58), for a caller that makes at
\* most max calls.  The call opens no transaction and closes none: what an
\* earlier call left pending on self.conn stays pending.
CallWithin(w, event, max) ==
    LET out == AddOutcome(event)
    IN  /\ conn[w].pc = "idle"
        /\ conn[w].calls < max
        /\ conn' = [conn EXCEPT ![w] =
                [pc |-> IF out = "ok" THEN "execute" ELSE "idle",
                 ev |-> event, txn |-> conn[w].txn,
                 ret |-> IF out = "ok" THEN None ELSE out,
                 waited |-> FALSE, calls |-> conn[w].calls + 1]]
        /\ UNCHANGED <<events, now, last, lock, committer, loaded, bridge, scheduler, monitor, providers>>

Call(w, event) == CallWithin(w, event, MaxCalls)

\* conn.execute(INSERT OR REPLACE ...) when no other connection writes: the
\* statement begins a transaction unless the connection is in one already.
Execute(w) ==
    /\ conn[w].pc = "execute"
    /\ lock \in {None, w}
    /\ lock' = w
    /\ conn' = [conn EXCEPT ![w].pc = "commit",
                            ![w].txn = InsertOrReplace(View(w), conn[w].ev)]
    /\ UNCHANGED <<events, now, last, committer, loaded, bridge, scheduler, monitor, providers>>

\* The file is locked by another writer: the busy handler sleeps and retries.
Wait(w) ==
    /\ conn[w].pc = "execute"
    /\ lock \notin {None, w}
    /\ conn' = [conn EXCEPT ![w].waited = TRUE]
    /\ UNCHANGED <<events, now, last, lock, committer, loaded, bridge, scheduler, monitor, providers>>

\* The file stays locked beyond the timeout of the connection:
\* sqlite3.OperationalError (database is locked) leaves add_event.
Busy(w) ==
    /\ conn[w].pc = "execute"
    /\ lock \notin {None, w}
    /\ conn' = [conn EXCEPT ![w].pc = "idle", ![w].ret = "OperationalError"]
    /\ UNCHANGED <<events, now, last, lock, committer, loaded, bridge, scheduler, monitor, providers>>

\* conn.commit() and the return of add_event (line 78).
Commit(w) ==
    /\ conn[w].pc = "commit"
    /\ events' = Committed(events, conn[w].txn)
    /\ lock' = None
    /\ committer' = w
    /\ conn' = [conn EXCEPT ![w].pc = "idle", ![w].txn = None, ![w].ret = "ok"]
    /\ UNCHANGED <<now, last, loaded, bridge, scheduler, monitor, providers>>

\* ORDER BY release_date DESC, vintage DESC
OrderDescLE(r, q) ==
    \/ TextLess(Bytes(q.release_date), Bytes(r.release_date))
    \/ /\ r.release_date = q.release_date
       /\ TextLE(Bytes(q.vintage), Bytes(r.vintage))

\* The orders in which SQLite may return the rows of b: rows that the ORDER BY
\* does not tell apart come in any order.
LoadOrders(b) ==
    {s \in [1..BagCardinality(b) -> Rows(b)] :
        /\ \A r \in Rows(b) : Cardinality({i \in DOMAIN s : s[i] = r}) = b[r]
        /\ \A i, j \in DOMAIN s : i < j => OrderDescLE(s[i], s[j])}

\* BridgeProcessor.load_scraper_events: a connection of its own reads the file.
load_scraper_events(series_id) ==
    LET b == IF series_id = None THEN events
             ELSE Restrict(events, {r \in Rows(events) : r.series_id = series_id})
    IN  /\ \E s \in LoadOrders(b) : loaded' = s
        /\ UNCHANGED <<events, now, last, conn, lock, committer, bridge, scheduler, monitor, providers>>

NextConc ==
    \/ \E w \in Writers, e \in ConcEvents : Call(w, e)
    \/ \E w \in Writers : Execute(w)
    \/ \E w \in Writers : Wait(w)
    \/ \E w \in Writers : Busy(w)
    \/ \E w \in Writers : Commit(w)
    \/ \E s \in Series \cup {None} : load_scraper_events(s)

\* The file may hold a release when the writers start.
InitConc ==
    /\ events \in {EmptyBag} \cup {SetToBag({e}) : e \in ConcEvents}
    /\ now = [sec |-> 0, us |-> 0]
    /\ last = NoCall
    /\ conn = [w \in Writers |-> Idle]
    /\ lock = None
    /\ committer = None
    /\ loaded = <<>>
    /\ InitBackend /\ InitScheduler /\ InitMonitor /\ InitRegistry

SpecConc == InitConc /\ [][NextConc]_vars

\* ------------------------------------------------------------ storage failures
\* add_event has no try/except and no rollback (lines 54-78): an error of
\* conn.execute or conn.commit leaves the call with the connection as SQLite
\* left it.

\* conn.execute raises for a reason other than the lock (disk I/O error, disk
\* full): the statement is undone, the transaction of the connection is not.
ExecuteFails(w) ==
    /\ conn[w].pc = "execute"
    /\ lock \in {None, w}
    /\ conn' = [conn EXCEPT ![w].pc = "idle", ![w].ret = "OperationalError"]
    /\ UNCHANGED <<events, now, last, lock, committer, loaded, bridge, scheduler, monitor, providers>>

\* conn.commit raises "database is locked" (a reader of the file is in the
\* middle of its read): SQLite keeps the transaction open, and with it the
\* pages written and the write lock.
CommitBusy(w) ==
    /\ conn[w].pc = "commit"
    /\ conn' = [conn EXCEPT ![w].pc = "idle", ![w].ret = "OperationalError"]
    /\ UNCHANGED <<events, now, last, lock, committer, loaded, bridge, scheduler, monitor, providers>>

\* conn.commit raises for an I/O error or a full disk: SQLite rolls the
\* transaction back by itself.
CommitAborts(w) ==
    /\ conn[w].pc = "commit"
    /\ lock' = None
    /\ conn' = [conn EXCEPT ![w].pc = "idle", ![w].txn = None,
                            ![w].ret = "OperationalError"]
    /\ UNCHANGED <<events, now, last, committer, loaded, bridge, scheduler, monitor, providers>>

\* fetch_events of the store w (lines 80-97): the SELECT runs on self.conn.
fetch_on(w, series_id, as_of) ==
    /\ conn[w].pc = "idle"
    /\ last' = [op |-> "fetch_events", arg |-> <<series_id, as_of>>,
                ret |-> FetchEvents(View(w), series_id, as_of), effect |-> None]
    /\ UNCHANGED <<events, now, conn, lock, committer, loaded, bridge, scheduler, monitor, providers>>

\* One long-lived store (main.py keeps one EventStore) and a reader of the file.
Stores == {"w1"}

NextFail ==
    \/ \E w \in Stores, e \in ConcEvents : CallWithin(w, e, MaxAdds)
    \/ \E w \in Stores : Execute(w)
    \/ \E w \in Stores : ExecuteFails(w)
    \/ \E w \in Stores : Commit(w)
    \/ \E w \in Stores : CommitBusy(w)
    \/ \E w \in Stores : CommitAborts(w)
    \/ \E w \in Stores, s \in Series : fetch_on(w, s, <<>>)
    \/ \E s \in Series \cup {None} : load_scraper_events(s)

SpecFail == InitConc /\ [][NextFail]_vars

\* ------------------------------------------------------------ numbers
\* A float is held in ten-thousandths: the integer n stands for n / Unit.
Unit == 10000

Abs(n) == IF n < 0 THEN -n ELSE n

Min(a, b) == IF b < a THEN b ELSE a

Max(a, b) == IF b > a THEN b ELSE a

\* int(a / b): the quotient cut toward zero (b > 0).
Trunc(a, b) == IF a >= 0 THEN a \div b ELSE -((-a) \div b)

\* x * y and x / y of two floats, cut to the ten-thousandth; the products are
\* taken in two parts to stay within 32-bit integers.
MulDiv(a, b, c) == (a \div c) * b + ((a % c) * b) \div c

FMul(x, y) ==
    IF (x < 0) = (y < 0) THEN MulDiv(Abs(x), Abs(y), Unit)
    ELSE -MulDiv(Abs(x), Abs(y), Unit)

FDiv(x, y) ==
    IF (x < 0) = (y < 0) THEN MulDiv(Abs(x), Unit, Abs(y))
    ELSE -MulDiv(Abs(x), Unit, Abs(y))

\* round(a / b): to the nearest integer, a tie to the even one (b > 0).
Round(a, b) ==
    LET q == a \div b
        r == a - q * b
    IN  IF 2 * r < b THEN q
        ELSE IF 2 * r > b THEN q + 1
        ELSE IF q % 2 = 0 THEN q ELSE q + 1

RECURSIVE Sum(_)
Sum(xs) == IF xs = <<>> THEN 0 ELSE xs[1] + Sum(Tail(xs))

RECURSIVE Pow2(_)
Pow2(n) == IF n = 0 THEN 1 ELSE 2 * Pow2(n - 1)

\* The integer square root of v, looked for between lo and hi.
RECURSIVE SqrtIn(_, _, _)
SqrtIn(v, lo, hi) ==
    IF lo = hi THEN lo
    ELSE LET mid == (lo + hi + 1) \div 2
         IN  IF mid * mid <= v THEN SqrtIn(v, mid, hi) ELSE SqrtIn(v, lo, mid - 1)

ISqrt(v) == SqrtIn(v, 0, 46340)

\* ------------------------------------------------------------ scale converter
\* The scale factor and the backend range of ScoreConverter.
SCALE_FACTOR == 12
BACKEND_MAX == 24

\* convert_score without the clamps.
ConvertUnclamped(scraper_score) == Trunc(scraper_score * SCALE_FACTOR, Unit)

\* ScoreConverter.convert_score: clamp, scale, int(), clamp.
convert_score(scraper_score) ==
    LET clamped == Max(-2 * Unit, Min(2 * Unit, scraper_score))
        backend_score == Trunc(clamped * SCALE_FACTOR, Unit)
    IN  Max(-BACKEND_MAX, Min(BACKEND_MAX, backend_score))

\* BridgeProcessor.transform_event for a series whose configuration entry is
\* mapping (<<>> when the series has none) and whose impact class has the
\* multiplier impact_multiplier.
transform_event(scraper_event, mapping, impact_multiplier) ==
    IF mapping = <<>> THEN <<>>
    ELSE
        LET mapping_info == mapping[1]
            actual == scraper_event.actual
            surprise == IF scraper_event.consensus # <<>>
                        THEN actual - scraper_event.consensus[1] ELSE 0
            base_weight == mapping_info.weight
            normalized_surprise ==
                IF Abs(actual) > 0 THEN FDiv(surprise, Max(Abs(actual), Unit)) ELSE 0
            score_raw == FMul(FMul(normalized_surprise, impact_multiplier), base_weight)
            clamped == Max(-2 * Unit, Min(2 * Unit, score_raw))
            rt == scraper_event.release_time_utc
        IN  <<[asset_symbol |-> mapping_info.asset,
               pillar |-> mapping_info.pillar,
               key |-> mapping_info.key,
               value |-> convert_score(clamped),
               timestamp |-> fromisoformat(
                    [rt EXCEPT !.suffix = IF @ = "Z" THEN "+00:00" ELSE @])]>>

\* Scores handed to convert_score: the thousandths from -ScoreSpan to
\* ScoreSpan, and two values far outside.
ScoreSpan == 2500

Scores ==
    {n * (Unit \div 1000) : n \in -ScoreSpan..ScoreSpan} \cup {-1000 * Unit, 1000 * Unit}

\* Events handed to transform_event, with actual and consensus of either sign.
Actuals == {-3 * Unit, 0, Unit \div 2, 3 * Unit}

Consensuses == {<<>>, <<-3 * Unit>>, <<0>>, <<Unit>>, <<3 * Unit>>}

BridgeEvents ==
    {[Ev("US_CPI", "2024-01-15", "final", a, Stamp(0, "Z"), "fred")
        EXCEPT !.consensus = c] : a \in Actuals, c \in Consensuses}

\* Entries of the mapping configuration and multipliers of its impact table.
Mappings ==
    {<<>>} \cup
    {<<[asset |-> "USD", pillar |-> "inflation", key |-> "cpi", weight |-> wt]>> :
        wt \in {0, Unit, 3 * Unit}}

Multipliers == {Unit \div 2, Unit, 2 * Unit}

Input(kind, x) == [op |-> kind, arg |-> x, ret |-> None, effect |-> None]

InitConv ==
    /\ last \in {Input("score", x) : x \in Scores}
                \cup {Input("event", <<e, m, k>>) :
                            e \in BridgeEvents, m \in Mappings, k \in Multipliers}
    /\ events = EmptyBag
    /\ now = [sec |-> 0, us |-> 0]
    /\ conn = [w \in Writers |-> Idle]
    /\ lock = None
    /\ committer = None
    /\ loaded = <<>>
    /\ InitBackend /\ InitScheduler /\ InitMonitor /\ InitRegistry

ConvertScore ==
    /\ last.op = "score"
    /\ last' = [op |-> "convert_score", arg |-> last.arg,
                ret |-> convert_score(last.arg), effect |-> None]
    /\ UNCHANGED <<events, now, conn, lock, committer, loaded, bridge, scheduler, monitor, providers>>

TransformEvent ==
    /\ last.op = "event"
    /\ last' = [op |-> "transform_event", arg |-> last.arg,
                ret |-> transform_event(last.arg[1], last.arg[2], last.arg[3]),
                effect |-> None]
    /\ UNCHANGED <<events, now, conn, lock, committer, loaded, bridge, scheduler, monitor, providers>>

NextConv == ConvertScore \/ TransformEvent

SpecConv == InitConv /\ [][NextConv]_vars

\* ------------------------------------------------------------ scoring
\* IMPACT_WEIGHT.get(impact, 1.0)
IMPACT_WEIGHT(impact) ==
    CASE impact = "high" -> 3 * Unit
      [] impact = "mid" -> (3 * Unit) \div 2
      [] impact = "low" -> (3 * Unit) \div 4
      [] OTHER -> Unit

\* HALF_LIFE.get(freq, 30)
HALF_LIFE(freq) ==
    CASE freq = "w" -> 14
      [] freq = "m" -> 45
      [] freq = "q" -> 90
      [] freq = "policy" -> 90
      [] OTHER -> 30

\* str(x) of a float, character by character: a sign, the digits of the
\* whole part, a point and the digits of the fraction without its trailing
\* zeros ("2.0", "-0.5", "0.035").
Digit == <<"0", "1", "2", "3", "4", "5", "6", "7", "8", "9">>

RECURSIVE Digits(_)
Digits(n) ==
    IF n < 10 THEN <<Digit[n + 1]>>
    ELSE Append(Digits(n \div 10), Digit[(n % 10) + 1])

RECURSIVE Fraction(_, _)
Fraction(f, scale) ==
    LET place == scale \div 10
    IN  <<Digit[(f \div place) + 1]>>
            \o (IF f % place = 0 THEN <<>> ELSE Fraction(f % place, place))

str(x) ==
    (IF x < 0 THEN <<"-">> ELSE <<>>)
        \o Digits(Abs(x) \div Unit) \o <<".">> \o Fraction(Abs(x) % Unit, Unit)

\* The test of category_score with every value below 1 taken for a
\* percentage.
HasPercentBelowOne(actual) == Abs(actual) < Unit

\* "%" in str(actual)
HasPercent(actual) == \E i \in DOMAIN str(actual) : str(actual)[i] = "%"

\* surprise that reads a missing consensus as 0.
SurpriseFromZero(event, direction) ==
    IF event.consensus = <<>> THEN event.actual
    ELSE IF direction = "relative"
         THEN FDiv(event.actual, event.consensus[1]) - Unit
         ELSE event.actual - event.consensus[1]

surprise(event, direction) ==
    IF event.consensus = <<>> THEN 0
    ELSE IF direction = "relative"
         THEN FDiv(event.actual, event.consensus[1]) - Unit
         ELSE event.actual - event.consensus[1]

\* statistics.mean and statistics.pstdev
mean(xs) == Trunc(Sum(xs), Len(xs))

pstdev(xs) ==
    LET mu == mean(xs)
        sq == [i \in DOMAIN xs |-> (xs[i] - mu) * (xs[i] - mu)]
    IN  ISqrt(Sum(sq) \div Len(xs))

\* z_score that standardizes against a mean of zero.
ZScoreNoMean(series_id, surprises) ==
    IF surprises = <<>> THEN 0
    ELSE LET sd == pstdev(surprises)
             sigma == IF sd = 0 THEN Unit ELSE sd
         IN  FDiv(surprises[Len(surprises)], sigma)

z_score(series_id, surprises) ==
    IF surprises = <<>> THEN 0
    ELSE LET mu == mean(surprises)
             sd == pstdev(surprises)
             sigma == IF sd = 0 THEN Unit ELSE sd
         IN  FDiv(surprises[Len(surprises)] - mu, sigma)

\* The result of 0.5 ** x and of its product with the impact weight spans more
\* orders of magnitude than ten-thousandths hold: it is kept as a double is,
\* [man, exp] for man / Unit * 2^exp with Unit <= man < 2 * Unit, and Zero.
Zero == [man |-> 0, exp |-> 0]

RECURSIVE Norm(_, _)
Norm(man, exp) ==
    IF man = 0 THEN Zero
    ELSE IF man >= 2 * Unit THEN Norm(man \div 2, exp + 1)
    ELSE IF man < Unit THEN Norm(2 * man, exp - 1)
    ELSE [man |-> man, exp |-> exp]

\* The double nearest to f: below 2^-1022 a double is a whole number of
\* steps of 2^-1074, and what is nearer to no step than to one is 0.0.
Denorm(f) ==
    IF f.man = 0 THEN Zero
    ELSE LET k == f.exp + 1074
         IN  IF k >= 15 THEN f
             ELSE IF k < -1 THEN Zero
             ELSE IF k = -1 THEN Norm(Round(f.man, 2 * Unit) * Unit, -1074)
             ELSE Norm(Round(f.man * Pow2(k), Unit) * Unit, -1074)

\* 2 ** (num / den) for 0 <= num < den, bit by bit of the exponent:
\* root is 2 ** (1 / 2^k), acc the product of the roots of the bits so far.
RECURSIVE PowBits(_, _, _, _, _)
PowBits(num, den, k, root, acc) ==
    IF k > 12 THEN acc
    ELSE IF 2 * num >= den
         THEN PowBits(2 * num - den, den, k + 1, ISqrt(root * Unit),
                      MulDiv(acc, root, Unit))
         ELSE PowBits(2 * num, den, k + 1, ISqrt(root * Unit), acc)

\* 0.5 ** (days / hl)
HalfPow(days, hl) ==
    LET q == -((-days) \div hl)
        r == q * hl - days
    IN  Denorm([man |-> PowBits(r, hl, 1, ISqrt(2 * Unit * Unit), Unit), exp |-> -q])

\* decay * m for a double decay and a ten-thousandths m
Scaled(f, m) == Denorm(Norm(MulDiv(f.man, m, Unit), f.exp))

\* f < g and f <= g for two doubles that are not negative
FloatLess(f, g) ==
    IF g.man = 0 THEN FALSE
    ELSE IF f.man = 0 THEN TRUE
    ELSE f.exp < g.exp \/ (f.exp = g.exp /\ f.man < g.man)

FloatLE(f, g) == ~FloatLess(g, f)

\* The double m, m in ten-thousandths.
Float(m) == Norm(m, 0)

\* The double f in ten-thousandths.
Fixed(f) ==
    IF f.man = 0 THEN 0
    ELSE IF f.exp >= 0 THEN f.man * Pow2(f.exp)
    ELSE IF -f.exp > 15 THEN 0
    ELSE f.man \div Pow2(-f.exp)

\* (clock - rt).days for two aware datetimes: whole days, rounded down.
Days(clock, rt) ==
    LET secs == UtcSeconds(clock) - UtcSeconds(rt)
        borrow == IF clock.us < rt.us THEN 1 ELSE 0
    IN  (secs - borrow) \div 86400

\* decay_weight without the impact weight.
DecayNoImpact(release_time, freq, impact) ==
    HalfPow(Days(utcnow, fromisoformat(release_time)), HALF_LIFE(freq))

\* decay_weight at the time clock.
DecayAt(clock, release_time, freq, impact) ==
    LET rt == fromisoformat(release_time)
        days == Days(clock, rt)
        hl == HALF_LIFE(freq)
        decay == HalfPow(days, hl)
    IN  Scaled(decay, IMPACT_WEIGHT(impact))

decay_weight(release_time, freq, impact) == DecayAt(utcnow, release_time, freq, impact)

\* What decay_weight raises, "ok" when it returns: a release time without UTC
\* offset cannot be subtracted from the clock, and 0.5 ** x overflows for a
\* release more than 1024 half-lives ahead.
DecayOutcome(release_time, freq) ==
    LET rt == fromisoformat(release_time)
    IN  IF rt.tz = "naive" THEN "TypeError"
        ELSE IF Days(utcnow, rt) < -1024 * HALF_LIFE(freq) THEN "OverflowError"
        ELSE "ok"

\* math.tanh: by halving down to |x| <= 1, where Lambert's continued fraction
\* x / (1 + x^2 / (3 + x^2 / (5 + ...))) is cut after five terms.
RECURSIVE Lambert(_, _)
Lambert(x2, n) ==
    IF n >= 9 THEN n * Unit ELSE n * Unit + FDiv(x2, Lambert(x2, n + 2))

RECURSIVE tanh(_)
tanh(x) ==
    IF x < 0 THEN -tanh(-x)
    ELSE IF x > Unit
         THEN LET t == tanh(x \div 2) IN Min(Unit, FDiv(2 * t, Unit + FMul(t, t)))
         ELSE FDiv(x, Lambert(FMul(x, x), 1))

\* point_from_z without the dead zone.
PointNoDeadZone(z) == Max(-2 * Unit, Min(2 * Unit, 2 * tanh(Trunc(2 * z, 3))))

point_from_z(z) ==
    IF Abs(z) < Unit \div 4 THEN 0
    ELSE Max(-2 * Unit, Min(2 * Unit, 2 * tanh(Trunc(2 * z, 3))))

\* category_score that standardizes every event against the whole input.
CategoryLoopWhole(evs) ==
    LET n == Len(evs)
        all == [i \in 1..n |-> surprise(evs[i][1], "absolute")]
        mu == mean(all)
        sd == pstdev(all)
        sigma == IF sd = 0 THEN Unit ELSE sd
        z == [i \in 1..n |-> IF n = 0 THEN 0 ELSE FDiv(all[i] - mu, sigma)]
    IN  [surprises |-> all, z |-> z,
         weights |-> [i \in 1..n |->
            FMul(z[i], Fixed(decay_weight(evs[i][1].release_time_utc,
                                          evs[i][2], evs[i][1].impact)))]]

\* The loop of category_score over evs, its argument, from the i-th pair on: the surprises and the
\* weighted z-scores it has appended (and the z-scores themselves).
RECURSIVE Loop(_, _, _)
Loop(evs, i, acc) ==
    IF i > Len(evs) THEN acc
    ELSE LET ev == evs[i][1]
             freq == evs[i][2]
             s == IF HasPercent(ev.actual) THEN surprise(ev, "relative")
                  ELSE surprise(ev, "absolute")
             z == z_score(ev.series_id, Append(acc.surprises, s))
             w == decay_weight(ev.release_time_utc, freq, ev.impact)
         IN  Loop(evs, i + 1,
                  [surprises |-> Append(acc.surprises, s),
                   z |-> Append(acc.z, z),
                   weights |-> Append(acc.weights, FMul(z, Fixed(w)))])

CategoryLoop(evs) == Loop(evs, 1, [surprises |-> <<>>, z |-> <<>>, weights |-> <<>>])

category_score(evs) ==
    LET weights == CategoryLoop(evs).weights
    IN  IF weights = <<>> THEN 0
        ELSE point_from_z(Trunc(Sum(weights), Len(weights)))

\* ------------------------------------------------------------ scoring inputs
\* Surprise sequences handed to z_score: up to MaxLen surprises.
MaxLen == 3

Surprises == {-Unit, 0, Unit \div 2, Unit}

SurpriseSeqs == UNION {[1..n -> Surprises] : n \in 0..MaxLen}

\* Raw values handed to point_from_z: the hundredths from -RawSpan to
\* RawSpan, the neighbours of the threshold, and two extreme values.
RawSpan == 400

Raws ==
    {n * (Unit \div 100) : n \in -RawSpan..RawSpan}
        \cup {sg * (Unit \div 4 + d) : sg \in {-1, 1}, d \in {-1, 0, 1}}
        \cup {-100000 * Unit, 100000 * Unit}

\* Arguments of decay_weight: a release at the start of the clock, written
\* with and without UTC offset, any frequency and impact class (the mapping
\* configuration defaults to "monthly" and "medium", which scoring.py does
\* not know), looked at up to MaxDays days later, at midnight and one second
\* before it, and again from OldDays days on, 41 years later.
MaxDays == 91
OldDays == 15000

Freqs == {"w", "m", "q", "policy", "monthly"}

Impacts == {"high", "mid", "low", "medium"}

DecayArgs ==
    {<<Stamp(0, sfx), f, i>> : sfx \in {"", "Z", "+00:00"}, f \in Freqs, i \in Impacts}

DecayClock ==
    {[sec |-> d * 86400 + o, us |-> 0] :
        d \in (0..MaxDays) \cup {OldDays + k : k \in 0..MaxDays}, o \in {0, 86399}}

\* Inputs of category_score: up to MaxEvents pairs (event, frequency class)
\* of two series, released 45 days ago or today, with a consensus of 1.0.
MaxEvents == 3

CatNow == [sec |-> 45 * 86400, us |-> 0]

CatFreq(series_id) == IF series_id = "US_CPI" THEN "m" ELSE "q"

CatEvents ==
    {[Ev(s, "2024-01-15", "final", a, Stamp(t, "+00:00"), "fred")
        EXCEPT !.consensus = <<Unit>>] :
            s \in Series, a \in {0, Unit, 2 * Unit}, t \in {0, 45 * 86400}}

CatPairs == {<<e, CatFreq(e.series_id)>> : e \in CatEvents}

CatInputs == UNION {[1..n -> CatPairs] : n \in 0..MaxEvents}

InitScore ==
    /\ \/ last \in {Input("surprises", xs) : xs \in SurpriseSeqs}
             /\ now = [sec |-> 0, us |-> 0]
       \/ last \in {Input("raw", z) : z \in Raws}
             /\ now = [sec |-> 0, us |-> 0]
       \/ last \in {Input("release", a) : a \in DecayArgs}
             /\ now \in DecayClock
       \/ last \in {Input("events", evs) : evs \in CatInputs}
             /\ now = CatNow
    /\ events = EmptyBag
    /\ conn = [w \in Writers |-> Idle]
    /\ lock = None
    /\ committer = None
    /\ loaded = <<>>
    /\ InitBackend /\ InitScheduler /\ InitMonitor /\ InitRegistry

ZScore ==
    /\ last.op = "surprises"
    /\ last' = [op |-> "z_score", arg |-> last.arg,
                ret |-> z_score("US_CPI", last.arg), effect |-> None]
    /\ UNCHANGED <<events, now, conn, lock, committer, loaded, bridge, scheduler, monitor, providers>>

PointFromZ ==
    /\ last.op = "raw"
    /\ last' = [op |-> "point_from_z", arg |-> last.arg,
                ret |-> point_from_z(last.arg), effect |-> None]
    /\ UNCHANGED <<events, now, conn, lock, committer, loaded, bridge, scheduler, monitor, providers>>

\* decay_weight: ret is what it raises ("ok" for nothing), effect what it
\* returns.
DecayWeight ==
    /\ last.op = "release"
    /\ LET out == DecayOutcome(last.arg[1], last.arg[2])
       IN  last' = [op |-> "decay_weight", arg |-> last.arg, ret |-> out,
                    effect |-> IF out = "ok"
                               THEN decay_weight(last.arg[1], last.arg[2], last.arg[3])
                               ELSE Zero]
    /\ UNCHANGED <<events, now, conn, lock, committer, loaded, bridge, scheduler, monitor, providers>>

\* category_score: ret is the score, effect what the loop appended.
CategoryScore ==
    /\ last.op = "events"
    /\ last' = [op |-> "category_score", arg |-> last.arg,
                ret |-> category_score(last.arg), effect |-> CategoryLoop(last.arg)]
    /\ UNCHANGED <<events, now, conn, lock, committer, loaded, bridge, scheduler, monitor, providers>>

NextScore == ZScore \/ PointFromZ \/ DecayWeight \/ CategoryScore

SpecScore == InitScore /\ [][NextScore]_vars

\* ------------------------------------------------------------ stored events, scored
\* The store and the scoring together, as main.run uses them, over days: a
\* release of each series stamped at a midnight of the first MaxAge days, in
\* UTC or one second east or west of it, and a clock that reads those
\* midnights, the second after and the half second before.
MaxAge == 2

AgeEvents ==
    {Ev(s, "2024-01-15", "final", 1, Stamp(d * 86400, sfx), "fred") :
        s \in Series, d \in 0..MaxAge, sfx \in {"Z", "+00:00:01", "-00:00:01"}}

AgeClock ==
    {[sec |-> d * 86400, us |-> 0] : d \in 0..MaxAge}
        \cup {[sec |-> d * 86400 + 1, us |-> 0] : d \in 0..MaxAge}
        \cup {[sec |-> d * 86400 - 1, us |-> 500000] : d \in 1..MaxAge}

\* main.run, lines 36-37: the events of the series are fetched and scored,
\* all in the frequency class freq.
Score(series_id, freq) ==
    LET fetched == FetchEvents(events, series_id, <<>>)
        pairs == [i \in 1..Len(fetched) |-> <<fetched[i], freq>>]
    IN  /\ last' = [op |-> "category_score", arg |-> pairs,
                    ret |-> category_score(pairs), effect |-> CategoryLoop(pairs)]
        /\ UNCHANGED <<events, now, conn, lock, committer, loaded, bridge, scheduler, monitor, providers>>

NextAge ==
    \/ \E e \in AgeEvents : add_event(e)
    \/ \E t \in AgeClock : Tick(t)
    \/ \E s \in Series : Score(s, "q")

SpecAge == Init /\ [][NextAge]_vars

\* ------------------------------------------------------------ example workflow
SERIES_ID == "US_CPI"

\* unit.lower() of the units that providers report.
lower(unit) == IF unit = "Percent" THEN "percent" ELSE unit

\* float(x) / 100.0
Hundredth(x) == FDiv(x, 100 * Unit)

\* normalize_units(payload)
normalize_units(payload) ==
    IF lower(payload.unit) \in {"%", "percent", "percentage"}
    THEN [payload EXCEPT
            !.actual = Hundredth(@),
            !.consensus = IF @ = <<>> THEN <<>> ELSE <<Hundredth(@[1])>>,
            !.previous = IF @ = <<>> THEN <<>> ELSE <<Hundredth(@[1])>>,
            !.unit = "ratio"]
    ELSE payload

\* text[:10] of a release time of the first two days of the epoch.
Prefix10(t) == IF t.wall \div 86400 = 0 THEN "1970-01-01" ELSE "1970-01-02"

\* What registry.fetch returns in main.run: the payload of FredProvider, an
\* index, or that of WorldBankProvider, a percentage (and the same with a
\* capital letter), each with the previous value as consensus, stamped at
\* the midnight of its date.
RunDays == 0..1

Units == [fred |-> {"index"}, worldbank |-> {"percent", "Percent"}]

Payloads ==
    {[series_id |-> SERIES_ID, actual |-> a, consensus |-> c, previous |-> c,
      impact |-> "mid", release_time_utc |-> Stamp(d * 86400, "Z"),
      provider |-> p, unit |-> u] :
        a \in {2 * Unit, 3 * Unit}, c \in {<<>>, <<2 * Unit>>}, d \in RunDays,
        p \in DOMAIN Units, u \in UNION {Units[q] : q \in DOMAIN Units}}

RunClock == {[sec |-> d * 86400, us |-> 0] : d \in 0..MaxAge}

\* main.run with the payload that registry.fetch returned: the payload is
\* normalized, stored as the final vintage of its date, and the events of
\* the series are fetched and scored in the frequency class "q".  add_event
\* may raise, and run ends there.
Run(payload) ==
    LET p == normalize_units(payload)
        event == [series_id |-> SERIES_ID,
                  release_date |-> Prefix10(p.release_time_utc),
                  vintage |-> "final", actual |-> p.actual,
                  consensus |-> p.consensus, previous |-> p.previous,
                  impact |-> p.impact, release_time_utc |-> p.release_time_utc,
                  provider |-> p.provider]
        out == AddOutcome(event)
        after == InsertOrReplace(events, event)
        fetched == FetchEvents(after, SERIES_ID, <<>>)
        pairs == [i \in 1..Len(fetched) |-> <<fetched[i], "q">>]
    IN  /\ payload.unit \in Units[payload.provider]
        /\ IF out # "ok"
           THEN /\ events' = events
                /\ last' = [op |-> "run raised", arg |-> <<payload, <<>>>>, ret |-> out,
                            effect |-> None]
           ELSE /\ events' = after
                /\ last' = [op |-> "run", arg |-> <<payload, pairs>>,
                            ret |-> category_score(pairs), effect |-> CategoryLoop(pairs)]
        /\ UNCHANGED <<now, conn, lock, committer, loaded, bridge, scheduler, monitor, providers>>

NextRun ==
    \/ \E payload \in Payloads : Run(payload)
    \/ \E t \in RunClock : Tick(t)

SpecRun == Init /\ [][NextRun]_vars

\* ------------------------------------------------------------ bridge
\* The mapping configuration the bridge is started with: two series of the
\* asset USD, and no entry for any other series.
Router ==
    [US_CPI |-> [asset |-> "USD", pillar |-> "inflation", key |-> "cpi",
                 weight |-> Unit, frequency |-> "monthly", impact |-> "high"],
     US_GDP |-> [asset |-> "USD", pillar |-> "growth", key |-> "gdp",
                 weight |-> 3 * Unit, frequency |-> "monthly", impact |-> "medium"]]

ImpactMultipliers == [high |-> 2 * Unit, low |-> Unit \div 2]

\* get_mapping with an entry for every series.
GetMappingAny(series_id) ==
    <<Router[IF series_id \in DOMAIN Router THEN series_id ELSE "US_CPI"]>>

\* AssetMappingSystem.get_mapping: the entry of series_id, <<>> for None.
get_mapping(series_id) ==
    IF series_id \in DOMAIN Router THEN <<Router[series_id]>> ELSE <<>>

\* AssetMappingSystem.get_impact_multiplier
get_impact_multiplier(impact) ==
    IF impact \in DOMAIN ImpactMultipliers THEN ImpactMultipliers[impact] ELSE Unit

\* BridgeProcessor.transform_event(event) under the configuration above.
Transformed(event) ==
    LET mapping == get_mapping(event.series_id)
    IN  transform_event(event, mapping,
            IF mapping = <<>> THEN Unit ELSE get_impact_multiplier(mapping[1].impact))

\* The statements of the loop body of process_events that write to the
\* backend; Fault names the one that raises, None when none does.
Faults == {None, "asset", "event", "indicator", "score"}

NoStats == [processed |-> 0, skipped |-> 0, errors |-> 0]

Count(stats, field) == [stats EXCEPT ![field] = @ + 1]

\* The row of table assets with this symbol, as a set.
AssetOf(b, symbol) == {a \in b.assets : a.symbol = symbol}

\* BridgeProcessor.ensure_asset_exists: the backend after it.
ensure_asset_exists(b, symbol) ==
    IF AssetOf(b, symbol) # {} THEN b
    ELSE [b EXCEPT !.assets = @ \cup {[id |-> Cardinality(@) + 1, symbol |-> symbol,
                                       kind |-> "currency"]}]

\* session.merge(indicator): one indicator per (asset_id, key, ts).
MergeIndicator(b, ind) ==
    [b EXCEPT !.indicators =
        {i \in @ : <<i.asset_id, i.key, i.ts>> # <<ind.asset_id, ind.key, ind.ts>>}
            \cup {ind}]

\* compute_score(session, asset_id): the score of the asset is computed
\* again from its indicators.
compute_score(b, asset_id) ==
    [b EXCEPT !.scores =
        {s \in @ : s.asset_id # asset_id}
            \cup {[asset_id |-> asset_id,
                   over |-> {i \in b.indicators : i.asset_id = asset_id}]}]

\* The loop body with the test of dry_run after ensure_asset_exists.
ProcessEventDryLate(b, stats, event, dry_run, fault) ==
    LET transformed == Transformed(event)
    IN  IF transformed = <<>> THEN [backend |-> b, stats |-> Count(stats, "skipped")]
        ELSE [backend |-> IF dry_run \/ fault = None
                          THEN ensure_asset_exists(b, transformed[1].asset_symbol)
                          ELSE b,
              stats |-> Count(stats, IF fault = None \/ dry_run THEN "processed" ELSE "errors")]

\* One pass of the loop body of process_events: the backend and the counters
\* after it.  A statement that raises leaves what was committed before it,
\* and the handler counts an error and rolls the session back.
ProcessEvent(b, stats, event, dry_run, fault) ==
    LET transformed == Transformed(event)
        t == transformed[1]
        b1 == ensure_asset_exists(b, t.asset_symbol)
        asset == CHOOSE a \in AssetOf(b1, t.asset_symbol) : TRUE
        existing == {e \in b1.events : /\ e.asset_id = asset.id
                                       /\ e.kind = "indicator"
                                       /\ e.ingested_at = t.timestamp}
        b2 == [b1 EXCEPT !.events =
                    @ \cup {[id |-> Cardinality(@) + 1, source |-> "scraper_bridge",
                             asset_id |-> asset.id, kind |-> "indicator",
                             ingested_at |-> t.timestamp, key |-> t.key,
                             value |-> t.value, series_id |-> event.series_id,
                             vintage |-> event.vintage]}]
        b3 == MergeIndicator(b2, [asset_id |-> asset.id, key |-> t.key,
                                  ts |-> t.timestamp, value |-> t.value,
                                  series_id |-> event.series_id,
                                  vintage |-> event.vintage])
        b4 == compute_score(b3, asset.id)
        failed == Count(stats, "errors")
    IN  IF transformed = <<>> THEN [backend |-> b, stats |-> Count(stats, "skipped")]
        ELSE IF dry_run THEN [backend |-> b, stats |-> Count(stats, "processed")]
        ELSE IF fault = "asset" THEN [backend |-> b, stats |-> failed]
        ELSE IF existing # {} THEN [backend |-> b1, stats |-> Count(stats, "skipped")]
        ELSE IF fault = "event" THEN [backend |-> b1, stats |-> failed]
        ELSE IF fault = "indicator" THEN [backend |-> b2, stats |-> failed]
        ELSE IF fault = "score" THEN [backend |-> b3, stats |-> failed]
        ELSE [backend |-> b4, stats |-> Count(stats, "processed")]

\* The loop of process_events from event i on; the fault strikes the first
\* event of the batch.
RECURSIVE ProcessFrom(_, _, _, _, _, _)
ProcessFrom(b, stats, evs, i, dry_run, fault) ==
    IF i > Len(evs) THEN [backend |-> b, stats |-> stats]
    ELSE LET r == ProcessEvent(b, stats, evs[i], dry_run, IF i = 1 THEN fault ELSE None)
         IN  ProcessFrom(r.backend, r.stats, evs, i + 1, dry_run, fault)

\* Scraper events the bridge is handed: a US_CPI release without consensus,
\* another vintage of it with one, a US_GDP release of the same instant, a
\* later US_CPI release, and a release of a series without mapping.
Release(s, v, wall, c) ==
    [Ev(s, "2024-01-15", v, 3 * Unit, Stamp(wall, "Z"), "fred") EXCEPT !.consensus = c]

ScraperEvents ==
    {Release("US_CPI", "final", 0, <<>>),
     Release("US_CPI", "prelim", 0, <<Unit>>),
     Release("US_GDP", "final", 0, <<2 * Unit>>),
     Release("US_CPI", "final", 60, <<Unit>>),
     Release("JP_CPI", "final", 0, <<Unit>>)}

Batches ==
    {<<>>} \cup {<<e>> : e \in ScraperEvents}
           \cup {<<e, f>> : e \in ScraperEvents, f \in ScraperEvents}

\* BridgeProcessor.process_events(events, dry_run) on one session.
process_events(evs, dry_run, fault) ==
    LET r == ProcessFrom(backend, NoStats, evs, 1, dry_run, fault)
    IN  /\ runs < MaxRuns
        /\ fault # None => ~dry_run /\ evs # <<>>
        /\ runs' = runs + 1
        /\ backend' = r.backend
        /\ last' = [op |-> "process_events", arg |-> <<evs, dry_run, fault>>,
                    ret |-> r.stats, effect |-> None]
        /\ UNCHANGED <<events, now, conn, lock, committer, loaded, bridges, scheduler, monitor, providers>>

NextBridge ==
    \E evs \in Batches, dry_run \in BOOLEAN, fault \in Faults :
        process_events(evs, dry_run, fault)

SpecBridge == Init /\ [][NextBridge]_vars

\* ------------------------------------------------------------ bridge processes
\* Bridge processes started on the same backend (main, at the same time or
\* one after the other), statement by statement: every query and every
\* commit of process_events is a round trip to the database that another
\* process may come between.
Bridges == 1..2

\* The releases loaded from the scraper database: two of a mapped series
\* at different instants and one of a series without mapping.
LoadedEvents ==
    {Release("US_CPI", "final", 0, <<Unit>>),
     Release("US_CPI", "final", 60, <<Unit>>),
     Release("JP_CPI", "final", 0, <<Unit>>)}

LoadedBatches ==
    {<<e>> : e \in LoadedEvents} \cup {<<e, f>> : e \in LoadedEvents, f \in LoadedEvents}

\* The backend events of this asset at this instant: the query of lines
\* 246-250.
ExistingEvents(b, asset_id, timestamp) ==
    {e \in b.events : /\ e.asset_id = asset_id
                      /\ e.kind = "indicator"
                      /\ e.ingested_at = timestamp}

\* The event process p is at, and what transform_event makes of it.
EventOf(p) == bridges[p].evs[bridges[p].i]

\* The loop of process p goes on with its next event, the counter `field`
\* one higher.
Continue(p, field) ==
    [bridges EXCEPT ![p].pc = "event", ![p].i = @ + 1, ![p].asset = 0,
                    ![p].stats = Count(@, field)]

\* main, lines 299-308: a process loads events and enters process_events
\* with a session of its own.
Begin(p, evs) ==
    /\ runs < MaxRuns
    /\ p \notin DOMAIN bridges
    /\ runs' = runs + 1
    /\ bridges' = (p :> [pc |-> "event", evs |-> evs, i |-> 1, stats |-> NoStats,
                         asset |-> 0]) @@ bridges
    /\ UNCHANGED <<events, now, last, conn, lock, committer, loaded, backend,
                   scheduler, monitor, providers>>

\* Lines 218-231 and the query of ensure_asset_exists: an event without
\* mapping is skipped, and the asset of a mapped one is looked up.
QueryAsset(p) ==
    /\ p \in DOMAIN bridges
    /\ bridges[p].pc = "event"
    /\ bridges[p].i <= Len(bridges[p].evs)
    /\ LET transformed == Transformed(EventOf(p))
       IN  IF transformed = <<>> THEN bridges' = Continue(p, "skipped")
           ELSE IF AssetOf(backend, transformed[1].asset_symbol) = {}
           THEN bridges' = [bridges EXCEPT ![p].pc = "add_asset"]
           ELSE \E a \in AssetOf(backend, transformed[1].asset_symbol) :
                    bridges' = [bridges EXCEPT ![p].pc = "existing", ![p].asset = a.id]
    /\ UNCHANGED <<events, now, last, conn, lock, committer, loaded, backend, runs,
                   scheduler, monitor, providers>>

\* ensure_asset_exists, lines 155-157: the asset is added and committed.
\* When another process has added the symbol since the query, the commit
\* adds a second row or raises IntegrityError, as the schema of the backend
\* has it (unique).
AddAsset(p, unique) ==
    /\ p \in DOMAIN bridges
    /\ bridges[p].pc = "add_asset"
    /\ LET symbol == Transformed(EventOf(p))[1].asset_symbol
           id == Cardinality(backend.assets) + 1
       IN  IF AssetOf(backend, symbol) # {} /\ unique
           THEN /\ bridges' = Continue(p, "errors")
                /\ UNCHANGED backend
           ELSE /\ backend' = [backend EXCEPT !.assets =
                        @ \cup {[id |-> id, symbol |-> symbol, kind |-> "currency"]}]
                /\ bridges' = [bridges EXCEPT ![p].pc = "existing", ![p].asset = id]
    /\ UNCHANGED <<events, now, last, conn, lock, committer, loaded, runs,
                   scheduler, monitor, providers>>

\* Lines 246-255: the query for an existing backend event.
QueryExisting(p) ==
    /\ p \in DOMAIN bridges
    /\ bridges[p].pc = "existing"
    /\ bridges' =
        IF ExistingEvents(backend, bridges[p].asset,
                          Transformed(EventOf(p))[1].timestamp) # {}
        THEN Continue(p, "skipped")
        ELSE [bridges EXCEPT ![p].pc = "add"]
    /\ UNCHANGED <<events, now, last, conn, lock, committer, loaded, backend, runs,
                   scheduler, monitor, providers>>

\* Lines 257-259: the backend event is added and committed.  When another
\* process has added an event of this asset and instant since the query,
\* the commit adds a second one or raises IntegrityError, as the schema of
\* the backend has it (unique).
AddEvent(p, unique) ==
    /\ p \in DOMAIN bridges
    /\ bridges[p].pc = "add"
    /\ LET t == Transformed(EventOf(p))[1]
       IN  IF ExistingEvents(backend, bridges[p].asset, t.timestamp) # {} /\ unique
           THEN /\ bridges' = Continue(p, "errors")
                /\ UNCHANGED backend
           ELSE /\ backend' = [backend EXCEPT !.events =
                        @ \cup {[id |-> Cardinality(@) + 1, source |-> "scraper_bridge",
                                 asset_id |-> bridges[p].asset, kind |-> "indicator",
                                 ingested_at |-> t.timestamp, key |-> t.key,
                                 value |-> t.value, series_id |-> EventOf(p).series_id,
                                 vintage |-> EventOf(p).vintage]}]
                /\ bridges' = [bridges EXCEPT ![p].pc = "merge"]
    /\ UNCHANGED <<events, now, last, conn, lock, committer, loaded, runs,
                   scheduler, monitor, providers>>

\* Lines 262-270: the indicator is merged and committed.
Merge(p) ==
    /\ p \in DOMAIN bridges
    /\ bridges[p].pc = "merge"
    /\ LET t == Transformed(EventOf(p))[1]
       IN  backend' = MergeIndicator(backend, [asset_id |-> bridges[p].asset, key |-> t.key,
                                               ts |-> t.timestamp, value |-> t.value,
                                               series_id |-> EventOf(p).series_id,
                                               vintage |-> EventOf(p).vintage])
    /\ bridges' = [bridges EXCEPT ![p].pc = "score"]
    /\ UNCHANGED <<events, now, last, conn, lock, committer, loaded, runs,
                   scheduler, monitor, providers>>

\* Lines 272-275: the score of the asset is computed again and the event
\* is counted as processed.
ComputeScore(p) ==
    /\ p \in DOMAIN bridges
    /\ bridges[p].pc = "score"
    /\ backend' = compute_score(backend, bridges[p].asset)
    /\ bridges' = Continue(p, "processed")
    /\ UNCHANGED <<events, now, last, conn, lock, committer, loaded, runs,
                   scheduler, monitor, providers>>

\* Line 283 and the end of main: process_events returns its counters and
\* the process ends.
Return(p) ==
    /\ p \in DOMAIN bridges
    /\ bridges[p].pc = "event"
    /\ bridges[p].i > Len(bridges[p].evs)
    /\ last' = [op |-> "process_events", arg |-> <<bridges[p].evs, FALSE, None>>,
                ret |-> bridges[p].stats, effect |-> None]
    /\ bridges' = [q \in DOMAIN bridges \ {p} |-> bridges[q]]
    /\ UNCHANGED <<events, now, conn, lock, committer, loaded, backend, runs,
                   scheduler, monitor, providers>>

NextBridges ==
    \/ \E p \in Bridges, evs \in LoadedBatches : Begin(p, evs)
    \/ \E p \in Bridges : QueryAsset(p)
    \/ \E p \in Bridges, unique \in BOOLEAN : AddAsset(p, unique)
    \/ \E p \in Bridges : QueryExisting(p)
    \/ \E p \in Bridges, unique \in BOOLEAN : AddEvent(p, unique)
    \/ \E p \in Bridges : Merge(p)
    \/ \E p \in Bridges : ComputeScore(p)
    \/ \E p \in Bridges : Return(p)

SpecBridges == Init /\ [][NextBridges]_vars

\* ------------------------------------------------------------ missing consensus
\* Events with and without a consensus, handed to surprise in either mode, to
\* category_score in batches and to transform_event.
Directions == {"absolute", "relative"}

MixedEvents ==
    {[Ev(s, "2024-01-15", "final", a, Stamp(0, "+00:00"), "fred")
        EXCEPT !.consensus = c] :
            s \in Series, a \in {Unit, 2 * Unit}, c \in {<<>>, <<0>>, <<Unit>>}}

MixedPairs == {<<e, CatFreq(e.series_id)>> : e \in MixedEvents}

MixedInputs == UNION {[1..n -> MixedPairs] : n \in 0..MaxEvents}

InitSurprise ==
    /\ last \in {Input("direction", <<e, d>>) : e \in BridgeEvents, d \in Directions}
                \cup {Input("events", evs) : evs \in MixedInputs}
                \cup {Input("event", <<e, m, k>>) :
                            e \in BridgeEvents, m \in Mappings, k \in Multipliers}
    /\ now = CatNow
    /\ events = EmptyBag
    /\ conn = [w \in Writers |-> Idle]
    /\ lock = None
    /\ committer = None
    /\ loaded = <<>>
    /\ InitBackend /\ InitScheduler /\ InitMonitor /\ InitRegistry

\* surprise(event, direction); the division of the relative mode by a
\* consensus of 0 raises.
Surprise ==
    /\ last.op = "direction"
    /\ last' = [op |-> "surprise", arg |-> last.arg,
                ret |-> IF last.arg[2] = "relative" /\ last.arg[1].consensus = <<0>>
                        THEN "ZeroDivisionError"
                        ELSE surprise(last.arg[1], last.arg[2]),
                effect |-> None]
    /\ UNCHANGED <<events, now, conn, lock, committer, loaded, bridge, scheduler, monitor, providers>>

NextSurprise == Surprise \/ CategoryScore \/ TransformEvent

SpecSurprise == InitSurprise /\ [][NextSurprise]_vars

\* ------------------------------------------------------------ providers
\* The two providers of the module, and the lists a series is registered
\* with: up to two providers, in any order, one possibly twice.
Providers == {"fred", "worldbank"}

ProviderLists ==
    {<<>>} \cup {<<p>> : p \in Providers} \cup {<<p, q>> : p \in Providers, q \in Providers}

\* What a call of provider.fetch does: it returns a payload, or it raises
\* (unknown series in its mapping, missing API key, HTTP error, bad value).
Outcomes == {"payload", "raise"}

EventPayload(series_id, provider) == [series_id |-> series_id, provider |-> provider]

\* ProviderRegistry.fetch that asks every provider and keeps the last payload.
RECURSIVE FetchLast(_, _, _, _, _)
FetchLast(series_id, ps, outs, i, acc) ==
    IF i > Len(ps)
    THEN IF acc.payload = <<>> THEN [acc EXCEPT !.raised = "RuntimeError"] ELSE acc
    ELSE FetchLast(series_id, ps, outs, i + 1,
            [acc EXCEPT !.called = Append(@, ps[i]),
                        !.payload = IF outs[i] = "payload"
                                    THEN <<EventPayload(series_id, ps[i])>> ELSE @])

\* The loop of ProviderRegistry.fetch over the list ps from its i-th provider
\* on, outs[i] being what the i-th call does: what is raised, the payload
\* returned, and the providers called.
RECURSIVE FetchFrom(_, _, _, _, _)
FetchFrom(series_id, ps, outs, i, acc) ==
    IF i > Len(ps) THEN [acc EXCEPT !.raised = "RuntimeError"]
    ELSE IF outs[i] = "payload"
         THEN [acc EXCEPT !.called = Append(@, ps[i]),
                          !.payload = <<EventPayload(series_id, ps[i])>>]
         ELSE FetchFrom(series_id, ps, outs, i + 1,
                        [acc EXCEPT !.called = Append(@, ps[i])])

\* self._providers.get(series_id, [])
Registered(series_id) ==
    IF series_id \in DOMAIN providers THEN providers[series_id] ELSE <<>>

\* ProviderRegistry.register
register(series_id, ps) ==
    /\ providers' = [s \in DOMAIN providers \cup {series_id} |->
                        IF s = series_id THEN ps ELSE providers[s]]
    /\ last' = [op |-> "register", arg |-> <<series_id, ps>>, ret |-> None,
                effect |-> None]
    /\ UNCHANGED <<events, now, conn, lock, committer, loaded, bridge, scheduler, monitor>>

\* ProviderRegistry.fetch
fetch(series_id, outs) ==
    /\ last' = [op |-> "fetch", arg |-> <<series_id, outs>>,
                ret |-> FetchFrom(series_id, Registered(series_id), outs, 1,
                                  [raised |-> None, payload |-> <<>>, called |-> <<>>]),
                effect |-> None]
    /\ UNCHANGED <<events, now, conn, lock, committer, loaded, bridge, scheduler, monitor,
                   providers>>

NextRegistry ==
    \/ \E s \in Series, ps \in ProviderLists : register(s, ps)
    \/ \E s \in Series : \E outs \in [1..Len(Registered(s)) -> Outcomes] : fetch(s, outs)

SpecRegistry == Init /\ [][NextRegistry]_vars

\* ------------------------------------------------------------ scheduler
\* The scheduler's clock is read in steps of Step seconds, from midnight of
\* Monday 2024-01-15 on.
Step == 30

\* A field of a cron schedule: "*", "*/N", "a,b,..." or a single value.
Star == [form |-> "*"]

Every(n) == [form |-> "*/N", interval |-> n]

Only(v) == [form |-> "value", value |-> v]

\* matches of CronParser.should_run
matches(cron_field, time_value) ==
    CASE cron_field.form = "*" -> TRUE
      [] cron_field.form = "*/N" -> time_value % cron_field.interval = 0
      [] cron_field.form = "list" -> time_value \in cron_field.values
      [] OTHER -> cron_field.value = time_value

\* The fields of datetime.now() at t seconds after that midnight.
DateTime(t) ==
    [minute |-> (t \div 60) % 60, hour |-> (t \div 3600) % 24, day |-> 15,
     month |-> 1, weekday |-> 0]

\* CronParser.should_run: schedule is <<minute, hour, day, month, weekday>>.
should_run(schedule, current_time) ==
    LET d == DateTime(current_time)
    IN  /\ matches(schedule[1], d.minute)
        /\ matches(schedule[2], d.hour)
        /\ matches(schedule[3], d.day)
        /\ matches(schedule[4], d.month)
        /\ matches(schedule[5], d.weekday)

\* JobConfig; retry_count is <<>> for a null in the configuration file.
JobConfig(name, minute, enabled, retry_count) ==
    [name |-> name, schedule |-> <<minute, Star, Star, Star, Star>>, enabled |-> enabled,
     timeout |-> Step, retry_count |-> retry_count, retry_delay |-> Step]

\* Configurations: one enabled job, for every second minute and retried once
\* or for every minute with a retry_count of 0, -1 or null, and a disabled
\* job; the jobs are looked at every half minute, minute or second minute.
EnabledJobs ==
    {JobConfig("collect", Every(2), TRUE, <<1>>)}
        \cup {JobConfig("sync", Star, TRUE, r) : r \in {<<>>, <<-1>>, <<0>>}}

Configs ==
    {[check_interval |-> c, jobs |-> <<job, JobConfig("report", Star, FALSE, <<0>>)>>] :
        c \in {Step, 2 * Step, 4 * Step}, job \in EnabledJobs}

InitSched ==
    /\ events = EmptyBag
    /\ now = [sec |-> 0, us |-> 0]
    /\ last = NoCall
    /\ conn = [w \in Writers |-> Idle]
    /\ lock = None
    /\ committer = None
    /\ loaded = <<>>
    /\ InitBackend /\ InitMonitor /\ InitRegistry
    /\ running = FALSE
    /\ config \in Configs
    /\ walltime = 0
    /\ loop = [pc |-> "init", since |-> 0, current_time |-> 0, i |-> 0, wake |-> 0]
    /\ running_jobs = <<>>
    /\ tasks = <<>>
    /\ job_history = <<>>
    /\ starts = <<>>
    /\ signalled = FALSE

\* What the scheduler leaves alone.
elsewhere == <<events, now, last, conn, lock, committer, loaded, bridge, monitor, providers>>

\* Time passes.
Elapse ==
    /\ walltime < MaxTicks * Step
    /\ walltime' = walltime + Step
    /\ UNCHANGED <<running, config, loop, running_jobs, tasks, job_history, starts,
                   signalled, elsewhere>>

\* AutomationScheduler._signal_handler, run by the interpreter between any
\* two instructions of the main thread.
SignalHandler ==
    /\ ~signalled
    /\ running' = FALSE
    /\ signalled' = TRUE
    /\ UNCHANGED <<config, walltime, loop, running_jobs, tasks, job_history, starts,
                   elsewhere>>

\* run_scheduler up to its loop.
Start ==
    /\ loop.pc = "init"
    /\ running' = TRUE
    /\ loop' = [loop EXCEPT !.pc = "while", !.since = walltime]
    /\ UNCHANGED <<config, walltime, running_jobs, tasks, job_history, starts, signalled,
                   elsewhere>>

\* while self.running: current_time = datetime.now()
While ==
    /\ loop.pc = "while"
    /\ loop' = IF running
               THEN [loop EXCEPT !.pc = "for", !.current_time = walltime, !.i = 1]
               ELSE [loop EXCEPT !.pc = "stopped"]
    /\ UNCHANGED <<running, config, walltime, running_jobs, tasks, job_history, starts,
                   signalled, elsewhere>>

\* The local variables of a coroutine are kept while they are in use, and
\* read 0 before and after.
\* A task of execute_job that was created and has not run yet; it will
\* count the commands it runs, and keep the result of every attempt and the
\* time it waited before every retry.
NewTask(i) ==
    [job |-> i, pc |-> "created", attempt |-> 0, runs |-> 0, deadline |-> 0, wake |-> 0,
     ended |-> 0, waited |-> <<>>, results |-> <<>>, outcome |-> None, result |-> <<>>]

\* The body of "for job in jobs" that starts any job, registered or not.
StartsUnregistered(job) ==
    job.enabled /\ should_run(job.schedule, loop.current_time)

\* The body of "for job in jobs": whether the job is started.
Starts(job) ==
    /\ job.enabled
    /\ should_run(job.schedule, loop.current_time)
    /\ job.name \notin DOMAIN running_jobs

\* One pass of "for job in jobs".
CheckJob ==
    /\ loop.pc = "for"
    /\ loop.i <= Len(config.jobs)
    /\ LET job == config.jobs[loop.i]
           id == Len(starts) + 1
       IN  IF Starts(job)
           THEN /\ tasks' = [t \in DOMAIN tasks \cup {id} |->
                                IF t = id THEN NewTask(loop.i) ELSE tasks[t]]
                /\ running_jobs' = [n \in DOMAIN running_jobs \cup {job.name} |->
                                        IF n = job.name THEN id ELSE running_jobs[n]]
                /\ starts' = Append(starts, <<job.name, loop.current_time>>)
           ELSE UNCHANGED <<tasks, running_jobs, starts>>
    /\ loop' = [loop EXCEPT !.i = @ + 1]
    /\ UNCHANGED <<running, config, walltime, job_history, signalled, elsewhere>>

\* await asyncio.sleep(check_interval), entered.
Sleep ==
    /\ loop.pc = "for"
    /\ loop.i > Len(config.jobs)
    /\ loop' = [loop EXCEPT !.pc = "sleep", !.wake = walltime + config.check_interval,
                            !.current_time = 0, !.i = 0]
    /\ UNCHANGED <<running, config, walltime, running_jobs, tasks, job_history, starts,
                   signalled, elsewhere>>

\* The sleep is over, at its time or later.
WakeUp ==
    /\ loop.pc = "sleep"
    /\ walltime >= loop.wake
    /\ loop' = [loop EXCEPT !.pc = "while", !.wake = 0]
    /\ UNCHANGED <<running, config, walltime, running_jobs, tasks, job_history, starts,
                   signalled, elsewhere>>

\* JobResult
JobResult(job_name, end_time, success, exit_code, error_message) ==
    [job_name |-> job_name, end_time |-> end_time, success |-> success,
     exit_code |-> exit_code, error_message |-> error_message]

\* How _run_command ends: the exit code of the process, or an exception
\* while the process is created.
Endings == {"exit 0", "exit 1", "exception"}

ResultOf(job, ending) ==
    CASE ending = "exit 0" -> JobResult(job.name, walltime, TRUE, 0, None)
      [] ending = "exit 1" ->
            JobResult(job.name, walltime, FALSE, 1, "Command failed with exit code 1")
      [] ending = "timeout" -> JobResult(job.name, walltime, FALSE, -1, "Job timed out")
      [] OTHER -> JobResult(job.name, walltime, FALSE, -1, "exception")

\* execute_job that returns after one failed attempt.
AfterAttemptOnce(task, job, result) ==
    [task EXCEPT !.pc = "done", !.outcome = "returned", !.result = <<result>>,
                 !.results = Append(@, result)]

\* execute_job after _run_command has returned result in attempt
\* task.attempt: return the result, or go on to the sleep before a retry.
AfterAttempt(task, job, result) ==
    IF result.success \/ task.attempt = job.retry_count[1]
    THEN [task EXCEPT !.pc = "done", !.outcome = "returned", !.result = <<result>>,
                      !.results = Append(@, result), !.deadline = 0]
    ELSE [task EXCEPT !.pc = "delay", !.attempt = @ + 1, !.ended = walltime,
                      !.wake = walltime + job.retry_delay,
                      !.results = Append(@, result), !.deadline = 0]

\* The tasks run while run_scheduler sleeps.
Yielded == loop.pc = "sleep"

Put(id, task) == [tasks EXCEPT ![id] = task]

\* execute_job from its start to the first await of _run_command.
TaskBegin(id) ==
    /\ Yielded
    /\ tasks[id].pc = "created"
    /\ LET job == config.jobs[tasks[id].job]
       IN  tasks' = Put(id,
                IF job.retry_count = <<>>
                THEN [tasks[id] EXCEPT !.pc = "done", !.outcome = "raised"]
                ELSE IF job.retry_count[1] + 1 <= 0
                THEN [tasks[id] EXCEPT !.pc = "done", !.outcome = "returned"]
                ELSE [tasks[id] EXCEPT !.pc = "command", !.runs = 1,
                                       !.deadline = walltime + job.timeout])
    /\ UNCHANGED <<running, config, walltime, loop, running_jobs, job_history, starts,
                   signalled, elsewhere>>

\* _run_command returns: the process has ended or could not be created.
CommandEnds(id, ending) ==
    /\ Yielded
    /\ tasks[id].pc = "command"
    /\ LET job == config.jobs[tasks[id].job]
       IN  tasks' = Put(id, AfterAttempt(tasks[id], job, ResultOf(job, ending)))
    /\ UNCHANGED <<running, config, walltime, loop, running_jobs, job_history, starts,
                   signalled, elsewhere>>

\* asyncio.wait_for times out: the process is killed and the attempt failed.
TimedOut(id) ==
    /\ Yielded
    /\ tasks[id].pc = "command"
    /\ walltime >= tasks[id].deadline
    /\ LET job == config.jobs[tasks[id].job]
       IN  tasks' = Put(id, AfterAttempt(tasks[id], job, ResultOf(job, "timeout")))
    /\ UNCHANGED <<running, config, walltime, loop, running_jobs, job_history, starts,
                   signalled, elsewhere>>

\* await asyncio.sleep(retry_delay) is over: the next attempt.
DelayEnds(id) ==
    /\ Yielded
    /\ tasks[id].pc = "delay"
    /\ walltime >= tasks[id].wake
    /\ tasks' = Put(id, [tasks[id] EXCEPT
                            !.pc = "command", !.runs = @ + 1, !.wake = 0, !.ended = 0,
                            !.waited = Append(@, walltime - tasks[id].ended),
                            !.deadline = walltime + config.jobs[tasks[id].job].timeout])
    /\ UNCHANGED <<running, config, walltime, loop, running_jobs, job_history, starts,
                   signalled, elsewhere>>

\* asyncio.run(main()) cancels the tasks that are left when main returns.
Cancel(id) ==
    /\ loop.pc = "stopped"
    /\ tasks[id].pc # "done"
    /\ tasks' = Put(id, [tasks[id] EXCEPT !.pc = "done", !.outcome = "cancelled",
                                          !.deadline = 0, !.wake = 0, !.ended = 0])
    /\ UNCHANGED <<running, config, walltime, loop, running_jobs, job_history, starts,
                   signalled, elsewhere>>

\* Keep only last 100 results
HistoryLimit == 100

Trimmed(history) ==
    IF Len(history) > HistoryLimit
    THEN SubSeq(history, Len(history) - HistoryLimit + 1, Len(history))
    ELSE history

\* _job_completed that keeps the entry of a task without a result.
PopIfResult(id, name) ==
    IF tasks[id].outcome = "returned" /\ tasks[id].result # <<>>
    THEN [n \in DOMAIN running_jobs \ {name} |-> running_jobs[n]]
    ELSE running_jobs

\* self.executor.running_jobs.pop(job_name, None)
Pop(id, name) == [n \in DOMAIN running_jobs \ {name} |-> running_jobs[n]]

\* AutomationScheduler._job_completed, the done callback of the task: a
\* returned result is appended to the history (None too), and the entry of
\* the job name is removed whatever task.result() and the logging did.
JobCompleted(id) ==
    /\ loop.pc \in {"sleep", "stopped"}
    /\ tasks[id].pc = "done"
    /\ job_history' = IF tasks[id].outcome = "returned"
                      THEN Trimmed(Append(job_history, tasks[id].result))
                      ELSE job_history
    /\ running_jobs' = Pop(id, config.jobs[tasks[id].job].name)
    /\ tasks' = [t \in DOMAIN tasks \ {id} |-> tasks[t]]
    /\ UNCHANGED <<running, config, walltime, loop, starts, signalled, elsewhere>>

NextSched ==
    \/ Elapse
    \/ SignalHandler
    \/ Start
    \/ While
    \/ CheckJob
    \/ Sleep
    \/ WakeUp
    \/ \E id \in DOMAIN tasks : TaskBegin(id)
    \/ \E id \in DOMAIN tasks, ending \in Endings : CommandEnds(id, ending)
    \/ \E id \in DOMAIN tasks : TimedOut(id)
    \/ \E id \in DOMAIN tasks : DelayEnds(id)
    \/ \E id \in DOMAIN tasks : Cancel(id)
    \/ \E id \in DOMAIN tasks : JobCompleted(id)

SpecSched == InitSched /\ [][NextSched]_vars

\* The configurations that keep the default check_interval of 60 seconds.
InitSchedMinute == InitSched /\ config.check_interval = 2 * Step

\* The scheduler that looks at its jobs every minute, as by default, on an
\* event loop that goes on with whatever is ready: run_scheduler runs up to
\* its next await, and a done callback that is due is called.
SpecSchedFair ==
    /\ InitSchedMinute
    /\ [][NextSched]_vars
    /\ WF_vars(Start)
    /\ WF_vars(While)
    /\ WF_vars(CheckJob)
    /\ WF_vars(Sleep)
    /\ WF_vars(\E id \in DOMAIN tasks : JobCompleted(id))

\* ------------------------------------------------------------ monitoring
\* Two of the checks of HealthChecker and the statuses they report.
MetricNames == {"system_cpu", "database_tables"}

Statuses == {"OK", "WARNING", "CRITICAL"}

\* HealthMetric; the timestamp is the number of the pass that took it.
HealthMetric(name, status, timestamp) ==
    [name |-> name, status |-> status, timestamp |-> timestamp]

\* What run_all_checks returns in pass n: one metric of every check.
MetricsOf(n) ==
    {<<HealthMetric("system_cpu", s, n), HealthMetric("database_tables", t, n)>> :
        s \in Statuses, t \in Statuses}

\* f"{metric.name}_{metric.status}": the name and the status.
AlertId(metric) == <<metric.name, metric.status>>

\* alert_id.replace(old, new), old being "_OK": no name of a metric holds
\* that text, the status at the end does or does not.
Replace(alert_id, old, new) ==
    IF alert_id[2] = old THEN <<alert_id[1], new>> ELSE alert_id

\* SystemAlert
SystemAlert(metric) ==
    [id |-> AlertId(metric), severity |-> metric.status, component |-> metric.name,
     timestamp |-> metric.timestamp, resolved |-> FALSE, resolution_time |-> <<>>]

Without(alerts, alert_id) == [a \in DOMAIN alerts \ {alert_id} |-> alerts[a]]

With(alerts, alert) ==
    [a \in DOMAIN alerts \cup {alert.id} |-> IF a = alert.id THEN alert ELSE alerts[a]]

\* The resolution of the alert alert_id, if it is active, by an OK metric.
Resolve(st, alert_id, metric) ==
    IF alert_id \in DOMAIN st.active
    THEN [st EXCEPT !.active = Without(@, alert_id),
                    !.history = Append(@, [st.active[alert_id] EXCEPT
                                            !.resolved = TRUE,
                                            !.resolution_time = <<metric.timestamp>>])]
    ELSE st

\* The body of the loop of process_metrics that raises an alert at every
\* WARNING or CRITICAL metric.
ProcessMetricAlways(st, metric) ==
    IF metric.status \in {"WARNING", "CRITICAL"}
    THEN [st EXCEPT !.active = With(@, SystemAlert(metric)),
                    !.new = Append(@, SystemAlert(metric))]
    ELSE Resolve(Resolve(st, Replace(AlertId(metric), "OK", "WARNING"), metric),
                 Replace(AlertId(metric), "OK", "CRITICAL"), metric)

\* The body that resolves the WARNING alert alone.
ProcessMetricWarningOnly(st, metric) ==
    IF metric.status \in {"WARNING", "CRITICAL"}
    THEN IF AlertId(metric) \notin DOMAIN st.active
         THEN [st EXCEPT !.active = With(@, SystemAlert(metric)),
                         !.new = Append(@, SystemAlert(metric))]
         ELSE st
    ELSE Resolve(st, Replace(AlertId(metric), "OK", "WARNING"), metric)

\* The body of the loop of process_metrics for one metric, on
\* st = [active, history, new].
ProcessMetric(st, metric) ==
    IF metric.status \in {"WARNING", "CRITICAL"}
    THEN IF AlertId(metric) \notin DOMAIN st.active
         THEN [st EXCEPT !.active = With(@, SystemAlert(metric)),
                         !.new = Append(@, SystemAlert(metric))]
         ELSE st
    ELSE Resolve(Resolve(st, Replace(AlertId(metric), "OK", "WARNING"), metric),
                 Replace(AlertId(metric), "OK", "CRITICAL"), metric)

RECURSIVE ProcessMetricsFrom(_, _, _)
ProcessMetricsFrom(st, metrics, i) ==
    IF i > Len(metrics) THEN st
    ELSE ProcessMetricsFrom(ProcessMetric(st, metrics[i]), metrics, i + 1)

\* One pass of run_monitoring: the checks, AlertManager.process_metrics on
\* their metrics, and the new alerts handed to send_notifications.
process_metrics(metrics) ==
    LET st == ProcessMetricsFrom(
                [active |-> active_alerts, history |-> alert_history, new |-> <<>>],
                metrics, 1)
    IN  /\ metrics_history' = Append(metrics_history, metrics)
        /\ active_alerts' = st.active
        /\ alert_history' = st.history
        /\ notified' = notified \o st.new
        /\ last' = [op |-> "process_metrics", arg |-> metrics, ret |-> st.new,
                    effect |-> None]
        /\ UNCHANGED <<events, now, conn, lock, committer, loaded, bridge, scheduler,
                       providers>>

NextMonitor ==
    /\ Len(metrics_history) < MaxChecks
    /\ \E metrics \in MetricsOf(Len(metrics_history) + 1) : process_metrics(metrics)

SpecMonitor == Init /\ [][NextMonitor]_vars

\* ------------------------------------------------------------ claims
InSeq(x, seq) == \E i \in 1..Len(seq) : seq[i] = x

\* The step is a call of add_event (the clock does not move within a call).
AddStep == last'.op = "add_event" /\ now' = now

C2_OneRowPerKey ==
    /\ \A r \in Rows(events) :
            /\ CopiesIn(r, events) = 1
            /\ RowsOfKey(events, Key(r)) = {r}
    /\ (last.op = "add_event" /\ last.ret = "ok") =>
            RowsOfKey(events, Key(last.arg)) = {last.arg}

\* C2 witness: a stored triple was submitted again with other values.
C2_Witness ==
    /\ last.op = "add_event"
    /\ last.effect = "replace"
    /\ BagCardinality(events) = 2

\* C3 (as claimed): what fetch_events(series, as_of = T) has returned is still
\* returned by the same query after any later call.
C3_FetchedStaysFetched ==
    [][(last.op = "fetch_events" /\ last.arg[2] # <<>>) =>
        \A i \in 1..Len(last.ret) :
            InSeq(last.ret[i], FetchEvents(events', last.arg[1], last.arg[2]))]_vars

\* C6 (as claimed): fetch_events yields ascending release dates and, within a
\* release date, flash before prelim before final.
C6_RevisionOrder ==
    LET rank(v) == CASE v = "flash" -> 1 [] v = "prelim" -> 2 [] v = "final" -> 3
    IN  \A s \in Series, a \in AsOfs :
            LET res == FetchEvents(events, s, a)
            IN  \A i, j \in 1..Len(res) :
                    i < j =>
                        \/ TextLess(Bytes(res[i].release_date), Bytes(res[j].release_date))
                        \/ /\ res[i].release_date = res[j].release_date
                           /\ rank(res[i].vintage) < rank(res[j].vintage)

\* C7: a step changes no stored record other than the one with the key of the
\* event an accepted add_event carries, and no key ever leaves the store.
C7_OtherKeysUntouched ==
    [][/\ \A r \in Rows(events) :
            \/ CopiesIn(r, events') = CopiesIn(r, events)
            \/ /\ AddStep
               /\ last'.ret = "ok"
               /\ Key(r) = Key(last'.arg)
       /\ {Key(r) : r \in Rows(events)} \subseteq {Key(r) : r \in Rows(events')}]_vars

\* C7 witness: a record was replaced while another vintage of the same release
\* was stored.
C7_Witness ==
    /\ last.op = "add_event"
    /\ last.effect = "replace"
    /\ \E r \in Rows(events) :
            /\ r.series_id = last.arg.series_id
            /\ r.release_date = last.arg.release_date
            /\ r.vintage # last.arg.vintage

\* C8: add_event of an event that is stored as it is changes neither the
\* stored events nor the result of any fetch_events.
C8_ReAddIsNoOp ==
    [][(AddStep /\ last'.ret = "ok" /\ BagIn(last'.arg, events)) =>
        /\ events' = events
        /\ \A s \in Series, a \in AsOfs :
                FetchEvents(events', s, a) = FetchEvents(events, s, a)]_vars

\* C8 witness: the identical event was added a second time.
C8_Witness ==
    /\ last.op = "add_event"
    /\ last.effect = "same"
    /\ BagCardinality(events) = 2

\* C4 (as claimed): fetch_events(series, as_of) returns exactly the stored
\* events of the series whose release instant is at or before as_of.
C4_AsOfByInstant ==
    \A s \in Series, d \in UtcTimes :
        {r \in Rows(events) : InSeq(r, FetchEvents(events, s, <<d>>))}
            = {r \in Rows(events) :
                    /\ r.series_id = s
                    /\ ~After(fromisoformat(r.release_time_utc), d)}

\* C5 (as claimed): after add_event of e, fetch_events(e.series_id, as_of = its
\* release time) returns e exactly once and fetch_events(e.series_id, as_of =
\* one second earlier) does not return it.
C5_AddThenFetch ==
    (last.op = "add_event" /\ last.ret = "ok") =>
        LET e == last.arg
            T == fromisoformat(e.release_time_utc)
            at == FetchEvents(events, e.series_id, <<T>>)
            before == FetchEvents(events, e.series_id, <<MinusSeconds(T, 1)>>)
        IN  /\ Cardinality({i \in 1..Len(at) : at[i] = e}) = 1
            /\ ~InSeq(e, before)

\* A call of add_event on connection w returns without raising in this step.
Returns(w) == conn[w].pc # "idle" /\ conn'[w].pc = "idle" /\ conn'[w].ret = "ok"

C10_RaceToOneRow ==
    /\ \A r \in Rows(events) :
            CopiesIn(r, events) = 1 /\ RowsOfKey(events, Key(r)) = {r}
    /\ \A w1, w2 \in Writers :
            (/\ w1 # w2
             /\ conn[w1].pc = "idle" /\ conn[w1].ret = "ok"
             /\ conn[w2].pc = "idle" /\ conn[w2].ret = "ok"
             /\ Key(conn[w1].ev) = Key(conn[w2].ev))
            => /\ committer \in {w1, w2}
               /\ RowsOfKey(events, Key(conn[w1].ev)) = {conn[committer].ev}

\* C10 witness: two writers added different events of one key, and the one
\* that committed last had found the file locked by the other.
C10_Witness ==
    \E w1, w2 \in Writers :
        /\ w1 # w2
        /\ conn[w1].pc = "idle" /\ conn[w1].ret = "ok"
        /\ conn[w2].pc = "idle" /\ conn[w2].ret = "ok"
        /\ Key(conn[w1].ev) = Key(conn[w2].ev)
        /\ conn[w1].ev # conn[w2].ev
        /\ conn[w2].waited
        /\ committer = w2

\* The call of add_event on w ends with an error of the storage layer.
Fails(w) ==
    /\ conn[w].pc # "idle"
    /\ conn'[w].pc = "idle"
    /\ conn'[w].ret = "OperationalError"

\* C11: add_event is all-or-nothing.  When conn.execute or conn.commit fails
\* the error reaches the caller, the file is unchanged and the store holds
\* nothing pending (what it reads is the file, so no later fetch on it shows
\* the failed event); and an add_event that succeeds makes durable its own
\* event only, never one left by an earlier failed call.
C11_AllOrNothing ==
    [][\A w \in Stores :
        /\ Fails(w) =>
                /\ events' = events
                /\ lock' # w
        /\ Returns(w) => events' = InsertOrReplace(events, conn'[w].ev)]_vars

\* C12: convert_score(x) is round(clamp(x, -2, 2) * 12) for every x, the
\* scaled value rounded to the nearest integer; 1.986 converts to 24.
C12_RoundsToNearest ==
    last.op = "convert_score" =>
        last.ret = Round(Max(-2 * Unit, Min(2 * Unit, last.arg)) * 12, Unit)

\* C18: convert_score is exact at the fixed points (-2 -> -24, 0 -> 0,
\* 2 -> 24), never decreases when its argument grows, and returns an integer
\* of [-24, 24] for every input, inputs outside [-2, 2] included; so every
\* value that transform_event emits lies in [-24, 24].
C18_ConvertBounded ==
    /\ last.op = "convert_score" =>
            /\ last.ret \in -24..24
            /\ last.arg = -2 * Unit => last.ret = -24
            /\ last.arg = 0 => last.ret = 0
            /\ last.arg = 2 * Unit => last.ret = 24
            /\ \A y \in Scores : y <= last.arg => convert_score(y) <= last.ret
    /\ (last.op = "transform_event" /\ last.ret # <<>>) =>
            last.ret[1].value \in -24..24

\* An input above 2 has been converted, and an event has been transformed
\* whose raw score was beyond the range.
C18_Witness ==
    \/ last.op = "convert_score" /\ last.arg > 2 * Unit /\ last.ret = 24
    \/ /\ last.op = "transform_event"
       /\ last.ret # <<>>
       /\ last.ret[1].value = -24

\* The surprises of the pairs 1..i of evs that belong to the series of the
\* i-th, in their order.
OwnSurprises(evs, i) ==
    LET own == SelectSeq(SubSeq(evs, 1, i),
                         LAMBDA p : p[1].series_id = evs[i][1].series_id)
    IN  [j \in 1..Len(own) |-> surprise(own[j][1], "absolute")]

\* C13: in category_score the z-score of each event is standardized against
\* the surprises of its own series only: it is what z_score gives on the
\* surprises of that series up to the event, whatever events of other series
\* the input holds.
C13_OwnSeriesOnly ==
    last.op = "category_score" =>
        \A i \in 1..Len(last.arg) :
            last.effect.z[i] = z_score(last.arg[i][1].series_id, OwnSurprises(last.arg, i))

\* C14: category_score is strictly causal: the z-score and the weighted
\* contribution of the i-th event are what the loop gives on the events 1..i
\* alone, so events appended after it never change them.
C14_Causal ==
    last.op = "category_score" =>
        \A k \in 0..Len(last.arg) :
            LET head == CategoryLoop(SubSeq(last.arg, 1, k))
            IN  /\ head.z = SubSeq(last.effect.z, 1, k)
                /\ head.weights = SubSeq(last.effect.weights, 1, k)

\* Three events have been scored and the second contributed.
C14_Witness ==
    /\ last.op = "category_score"
    /\ Len(last.arg) >= 3
    /\ last.effect.weights[2] # 0

\* C15: category_score returns 0 for no events; an event whose surprise is
\* the mean of the surprises up to and including it has z = 0 and contributes
\* 0 whatever its decay weight; an input of exactly one event scores 0.
C15_ZeroCases ==
    last.op = "category_score" =>
        LET n == Len(last.arg)
            s == last.effect.surprises
        IN  /\ n = 0 => last.ret = 0
            /\ n = 1 => last.ret = 0
            /\ \A i \in 1..n :
                    i * s[i] = Sum(SubSeq(s, 1, i)) =>
                        last.effect.z[i] = 0 /\ last.effect.weights[i] = 0

\* The third event lies at the mean of three surprises that are not all the
\* same, and contributes nothing.
C15_Witness ==
    /\ last.op = "category_score"
    /\ Len(last.arg) = 3
    /\ last.effect.surprises[1] # last.effect.surprises[2]
    /\ 3 * last.effect.surprises[3] = Sum(last.effect.surprises)
    /\ last.effect.weights[3] = 0

\* C16: z_score returns 0 for no surprises and for a constant or
\* single-element sequence (a standard deviation of zero counts as 1.0);
\* otherwise it returns (last element - mean) / population standard deviation
\* of the whole sequence, the last element included.
C16_ZScore ==
    last.op = "z_score" =>
        LET xs == last.arg
            n == Len(xs)
        IN  IF n = 0 \/ \A i \in 1..n : xs[i] = xs[1]
            THEN last.ret = 0
            ELSE /\ pstdev(xs) > 0
                 /\ last.ret = FDiv(xs[n] - mean(xs), pstdev(xs))

\* Three surprises that differ have been standardized, the last off the mean.
C16_Witness ==
    /\ last.op = "z_score"
    /\ Len(last.arg) = 3
    /\ last.arg[1] # last.arg[3]
    /\ last.ret # 0

\* C17: point_from_z returns a value of [-2, 2] for every raw value: 0 when
\* |raw| < 0.25, otherwise a value that is not 0 and has the sign of raw;
\* and so category_score returns a value of [-2, 2].
C17_PointBounded ==
    /\ last.op = "point_from_z" =>
            /\ -2 * Unit <= last.ret /\ last.ret <= 2 * Unit
            /\ Abs(last.arg) < Unit \div 4 => last.ret = 0
            /\ last.arg >= Unit \div 4 => last.ret > 0
            /\ last.arg <= -(Unit \div 4) => last.ret < 0
    /\ last.op = "category_score" =>
            -2 * Unit <= last.ret /\ last.ret <= 2 * Unit

\* An extreme raw value has been squashed to 2.
C17_Witness ==
    /\ last.op = "point_from_z"
    /\ last.arg > 1000 * Unit
    /\ last.ret = 2 * Unit

\* The tables as the claim reads them: the known classes, the default
\* half-life for any other frequency class, 1.0 for any other impact class.
ClaimedHalfLife(freq) ==
    IF freq \in {"w", "m", "q", "policy"} THEN HALF_LIFE(freq) ELSE 30

ClaimedMultiplier(impact) ==
    Float(IF impact \in {"high", "mid", "low"} THEN IMPACT_WEIGHT(impact) ELSE Unit)

\* The whole days between the release of the last decay_weight and the clock.
Elapsed == Days(utcnow, fromisoformat(last.arg[1]))

\* What decay_weight returns for the same arguments one day later.
ADayLater ==
    DecayAt([utcnow EXCEPT !.wall = @ + 86400], last.arg[1], last.arg[2], last.arg[3])

\* The weight of the claimed tables after k whole half-lives, k < 1022:
\* multiplier / 2^k.
AtHalfLives ==
    (/\ Elapsed % ClaimedHalfLife(last.arg[2]) = 0
     /\ Elapsed < 1022 * ClaimedHalfLife(last.arg[2])) =>
        last.effect = Scaled([man |-> Unit, exp |-> -(Elapsed \div ClaimedHalfLife(last.arg[2]))],
                             Fixed(ClaimedMultiplier(last.arg[3])))

\* C19 (as claimed): for a fixed frequency and impact class decay_weight is
\* strictly decreasing as the elapsed whole days increase, equals the impact
\* multiplier at 0 elapsed days and is always in (0, impact multiplier]; an
\* unknown frequency class uses the default half-life and an unknown impact
\* class the multiplier 1.0.
C19_DecayStrict ==
    (last.op = "decay_weight" /\ last.ret = "ok" /\ Elapsed >= 0) =>
        /\ FloatLess(Zero, last.effect)
        /\ FloatLE(last.effect, ClaimedMultiplier(last.arg[3]))
        /\ Elapsed = 0 => last.effect = ClaimedMultiplier(last.arg[3])
        /\ FloatLess(ADayLater, last.effect)
        /\ AtHalfLives

\* C19 (amended): for a fixed frequency and impact class and a release that
\* is not in the future, decay_weight never increases as the elapsed whole
\* days increase, equals the impact multiplier at 0 elapsed days and is
\* always in [0, impact multiplier]; it is above 0 and strictly decreasing
\* while the elapsed days stay below 1022 half-lives, and it is 0.0 from 1075
\* half-lives on, where 0.5 ** x underflows; an unknown frequency class uses
\* the default half-life of 30 days and an unknown impact class the
\* multiplier 1.0.
C19_DecayBounded ==
    (last.op = "decay_weight" /\ last.ret = "ok" /\ Elapsed >= 0) =>
        /\ FloatLE(Zero, last.effect)
        /\ FloatLE(last.effect, ClaimedMultiplier(last.arg[3]))
        /\ Elapsed = 0 => last.effect = ClaimedMultiplier(last.arg[3])
        /\ FloatLE(ADayLater, last.effect)
        /\ Elapsed + 1 < 1022 * ClaimedHalfLife(last.arg[2]) =>
                FloatLess(Zero, last.effect) /\ FloatLess(ADayLater, last.effect)
        /\ Elapsed >= 1075 * ClaimedHalfLife(last.arg[2]) => last.effect = Zero
        /\ AtHalfLives

\* A release of unknown frequency and impact class has been weighed 30 days
\* later, at half the multiplier 1.0.
C19_Witness ==
    /\ last.op = "decay_weight"
    /\ last.ret = "ok"
    /\ last.arg[2] = "monthly"
    /\ last.arg[3] = "medium"
    /\ Elapsed = 30
    /\ last.effect = [man |-> Unit, exp |-> -1]

\* C20: for every event that add_event has accepted, at every later time,
\* decay_weight computes days_elapsed >= 0: no stored event, and so no event
\* fetched and scored, receives a weight above its impact multiplier, in any
\* frequency class.
C20_NeverAboveMultiplier ==
    /\ \A r \in Rows(events) :
            /\ Days(utcnow, fromisoformat(r.release_time_utc)) >= 0
            /\ \A f \in Freqs :
                    FloatLE(decay_weight(r.release_time_utc, f, r.impact),
                            Float(IMPACT_WEIGHT(r.impact)))
    /\ last.op = "category_score" =>
            \A i \in 1..Len(last.arg) :
                FloatLE(decay_weight(last.arg[i][1].release_time_utc, last.arg[i][2],
                                     last.arg[i][1].impact),
                        Float(IMPACT_WEIGHT(last.arg[i][1].impact)))

\* An event stamped one second west of UTC was accepted, and has been fetched
\* and scored a day or more later, below the multiplier.
C20_Witness ==
    /\ last.op = "category_score"
    /\ Len(last.arg) > 0
    /\ last.arg[1][1].release_time_utc.suffix = "-00:00:01"
    /\ Days(utcnow, fromisoformat(last.arg[1][1].release_time_utc)) >= 1
    /\ FloatLess(decay_weight(last.arg[1][1].release_time_utc, "q", "mid"),
                 Float(IMPACT_WEIGHT("mid")))

\* The events of a batch whose series has an entry in the Router.
HasEntry(event) == event.series_id \in DOMAIN Router

\* C21: an event whose series has no Router entry is counted as skipped by
\* process_events, never as an error, nothing is written to the backend for
\* it, and the other events of the batch are handled as if it were not there.
C21_UnmappedSkipped ==
    [][last'.op = "process_events" =>
        LET evs == last'.arg[1]
            dry_run == last'.arg[2]
            fault == last'.arg[3]
            unmapped == {i \in 1..Len(evs) : ~HasEntry(evs[i])}
            r == ProcessFrom(backend, NoStats, SelectSeq(evs, HasEntry), 1, dry_run,
                             IF 1 \in unmapped THEN None ELSE fault)
        IN  /\ \A i \in unmapped : get_mapping(evs[i].series_id) = <<>>
            /\ backend' = r.backend
            /\ last'.ret.skipped = r.stats.skipped + Cardinality(unmapped)
            /\ last'.ret.errors = r.stats.errors
            /\ last'.ret.processed = r.stats.processed]_vars

\* An unmapped event was skipped and the mapped event after it was ingested.
C21_Witness ==
    /\ last.op = "process_events"
    /\ Len(last.arg[1]) = 2
    /\ ~HasEntry(last.arg[1][1])
    /\ HasEntry(last.arg[1][2])
    /\ last.ret = [processed |-> 1, skipped |-> 1, errors |-> 0]
    /\ Cardinality(backend.events) = 1

\* The surprises category_score is to collect for evs: 0 for an event
\* without consensus, actual - consensus for the others.
DueSurprises(evs) ==
    [i \in 1..Len(evs) |->
        IF evs[i][1].consensus = <<>> THEN 0
        ELSE evs[i][1].actual - evs[i][1].consensus[1]]

\* C22: a missing consensus is no error: surprise returns 0 for the event in
\* absolute and in relative mode, category_score gives it the surprise 0 and
\* scores every event of its input, and transform_event emits the value 0
\* for it when its series is mapped.
C22_MissingConsensus ==
    /\ last.op = "surprise" /\ last.arg[1].consensus = <<>> => last.ret = 0
    /\ last.op = "category_score" =>
            /\ last.effect.surprises = DueSurprises(last.arg)
            /\ Len(last.effect.weights) = Len(last.arg)
            /\ last.ret \in -2 * Unit..2 * Unit
    /\ last.op = "transform_event" /\ last.arg[1].consensus = <<>>
                                   /\ last.arg[2] # <<>> =>
            /\ last.ret # <<>>
            /\ last.ret[1].value = 0

\* An event without consensus was scored between two that have one, and the
\* score is not 0.
C22_Witness ==
    /\ last.op = "category_score"
    /\ Len(last.arg) = 3
    /\ last.arg[1][1].consensus # <<>>
    /\ last.arg[2][1].consensus = <<>>
    /\ last.arg[3][1].consensus # <<>>
    /\ last.effect.surprises[2] = 0
    /\ last.effect.surprises[3] # 0
    /\ last.ret # 0

\* The calls of the list ps that return a payload under outs.
Succeeding(ps, outs) == {i \in 1..Len(ps) : outs[i] = "payload"}

\* C23: ProviderRegistry.fetch calls the providers registered for the series
\* in registration order up to the first that returns a payload and no
\* further, returns that payload, and raises RuntimeError exactly when every
\* registered provider raised or none is registered.
C23_FirstSuccess ==
    last.op = "fetch" =>
        LET ps == Registered(last.arg[1])
            ok == Succeeding(ps, last.arg[2])
            first == CHOOSE i \in ok : \A j \in ok : i <= j
        IN  /\ ok = {} => /\ last.ret.raised = "RuntimeError"
                          /\ last.ret.payload = <<>>
                          /\ last.ret.called = ps
            /\ ok # {} => /\ last.ret.raised = None
                          /\ last.ret.payload = <<EventPayload(last.arg[1], ps[first])>>
                          /\ last.ret.called = SubSeq(ps, 1, first)

\* The primary raised, the fallback returned the payload.
C23_Witness ==
    /\ last.op = "fetch"
    /\ Registered(last.arg[1]) = <<"fred", "worldbank">>
    /\ last.arg[2] = <<"raise", "payload">>
    /\ last.ret.payload = <<EventPayload(last.arg[1], "worldbank")>>

\* The tasks of the job called name that have not finished.
InFlight(name) ==
    {id \in DOMAIN tasks : config.jobs[tasks[id].job].name = name /\ tasks[id].pc # "done"}

JobNames == {config.jobs[i].name : i \in DOMAIN config.jobs}

Disabled == {config.jobs[i].name : i \in {j \in DOMAIN config.jobs : ~config.jobs[j].enabled}}

\* C24: at most one execution of a job name is in flight at any time, a job
\* is started only while its name is not registered in running_jobs, and a
\* disabled job is never started.
C24_OneInFlight ==
    /\ [](\A name \in JobNames : Cardinality(InFlight(name)) <= 1)
    /\ [](\A k \in DOMAIN starts : starts[k][1] \notin Disabled)
    /\ [][starts' # starts => starts'[Len(starts')][1] \notin DOMAIN running_jobs]_vars

\* The scheduler has passed over a job whose schedule matches, because the
\* run started at an earlier check is still registered.
C24_Witness ==
    /\ loop.pc = "for"
    /\ loop.i = 2
    /\ should_run(config.jobs[1].schedule, loop.current_time)
    /\ Len(starts) = 1
    /\ starts[1][2] < loop.current_time
    /\ InFlight(config.jobs[1].name) # {}
    /\ config.jobs[1].name \in DOMAIN running_jobs

\* The tasks of jobs whose retry_count is a number from 0 on.
Retrying ==
    {id \in DOMAIN tasks :
        LET rc == config.jobs[tasks[id].job].retry_count
        IN  rc # <<>> /\ rc[1] >= 0}

\* C25: for a job with retry_count >= 0, execute_job runs the command at most
\* retry_count + 1 times, goes on only after a failed attempt (a timed-out
\* attempt is one), waits at least retry_delay before every attempt but the
\* first, and what it returns is a JobResult: that of the successful
\* attempt, or the failure of attempt retry_count + 1.
C25_Retries ==
    \A id \in Retrying :
        LET task == tasks[id]
            job == config.jobs[task.job]
            n == Len(task.results)
        IN  /\ task.runs <= job.retry_count[1] + 1
            /\ task.runs \in {n, n + 1}
            /\ \A k \in 1..n - 1 : ~task.results[k].success
            /\ n > 0 /\ task.pc # "done" => ~task.results[n].success
            /\ Len(task.waited) = (IF task.runs = 0 THEN 0 ELSE task.runs - 1)
            /\ \A k \in DOMAIN task.waited : task.waited[k] >= job.retry_delay
            /\ task.pc = "done" /\ task.outcome # "cancelled" =>
                    /\ task.outcome = "returned"
                    /\ n > 0
                    /\ task.result = <<task.results[n]>>
                    /\ task.results[n].success \/ n = job.retry_count[1] + 1

\* The first attempt timed out and the second, after the delay, succeeded.
C25_Witness ==
    \E id \in Retrying :
        /\ tasks[id].pc = "done"
        /\ Len(tasks[id].results) = 2
        /\ tasks[id].results[1].error_message = "Job timed out"
        /\ tasks[id].results[2].success
        /\ tasks[id].result = <<tasks[id].results[2]>>
        /\ tasks[id].waited = <<Step>>

\* C26: once a SIGINT or SIGTERM was handled, running is false, no further
\* job is started, and the loop enters no further sleep: it ends when the
\* sleep in progress is over.
C26_StopsOnSignal ==
    /\ [](signalled => ~running)
    /\ [][signalled => starts' = starts]_vars
    /\ [][signalled /\ loop'.pc = "sleep" => loop.pc = "sleep"]_vars

\* The minute an instant of the scheduler's clock lies in.
MinuteOf(t) == t \div 60

\* The starts of the job called name before the instant t, and its runs
\* that had returned by then.
StartsBefore(name, t) == {k \in DOMAIN starts : starts[k][1] = name /\ starts[k][2] < t}

EndedBy(name, t) ==
    {k \in DOMAIN job_history :
        /\ job_history[k] # <<>>
        /\ job_history[k][1].job_name = name
        /\ job_history[k][1].end_time <= t}

\* C27: while the scheduler is running, an enabled job is started exactly
\* once in every minute that matches its schedule and that its earlier runs
\* had finished by: no job is started twice in one minute, and no matching
\* minute that has gone by is without a start.
C27_OncePerMinute ==
    /\ \A j \in DOMAIN starts, k \in DOMAIN starts :
            j < k /\ starts[j][1] = starts[k][1] =>
                MinuteOf(starts[j][2]) # MinuteOf(starts[k][2])
    /\ \A i \in DOMAIN config.jobs, m \in 0..MaxTicks :
            LET job == config.jobs[i]
            IN  /\ running /\ loop.pc # "init" /\ loop.since <= 60 * m
                /\ walltime >= 60 * (m + 1)
                /\ job.enabled
                /\ should_run(job.schedule, 60 * m)
                /\ Cardinality(StartsBefore(job.name, 60 * m))
                        = Cardinality(EndedBy(job.name, 60 * m))
                => \E k \in DOMAIN starts :
                        starts[k][1] = job.name /\ MinuteOf(starts[k][2]) = m

\* The task registered for the job called name has finished.
Finished(name) ==
    /\ name \in DOMAIN running_jobs
    /\ \/ running_jobs[name] \notin DOMAIN tasks
       \/ tasks[running_jobs[name]].pc = "done"

\* C28: once the task of a started job has finished, the job is removed from
\* running_jobs, whether the task returned a result, returned None, raised
\* or was cancelled.
C28_EventuallyRemoved ==
    \A name \in {"collect", "sync", "report"} :
        Finished(name) ~> name \notin DOMAIN running_jobs

\* A task that raised has finished and its job is still registered.
C28_Witness ==
    \E name \in DOMAIN running_jobs :
        /\ Finished(name)
        /\ running_jobs[name] \in DOMAIN tasks
        /\ tasks[running_jobs[name]].outcome = "raised"

\* The ids of the alerts in a sequence of alerts.
Ids(alerts) == {alerts[k].id : k \in DOMAIN alerts}

\* The status the metric called name had in pass n.
StatusIn(n, name) ==
    LET metrics == metrics_history[n]
        k == CHOOSE j \in DOMAIN metrics : metrics[j].name = name
    IN  metrics[k].status

\* C29: process_metrics raises an alert for a WARNING or CRITICAL metric
\* exactly when no alert of the same metric and status is active, and hands
\* it to the notifications once; so of two alerts ever raised for the same
\* metric and status the second follows a pass in which the metric was OK,
\* and a metric that keeps its status from one pass to the next raises
\* nothing in the second.
C29_OneAlert ==
    /\ [][last'.op = "process_metrics" =>
            /\ \A k \in DOMAIN last'.arg :
                    LET metric == last'.arg[k]
                    IN  metric.status \in {"WARNING", "CRITICAL"} =>
                            /\ AlertId(metric) \in Ids(last'.ret)
                                    <=> AlertId(metric) \notin DOMAIN active_alerts
                            /\ AlertId(metric) \in DOMAIN active_alerts'
            /\ notified' = notified \o last'.ret
            /\ \A j \in DOMAIN last'.ret, k \in DOMAIN last'.ret :
                    last'.ret[j].id = last'.ret[k].id => j = k]_vars
    /\ [](\A j \in DOMAIN notified, k \in DOMAIN notified :
            j < k /\ notified[j].id = notified[k].id =>
                \E n \in notified[j].timestamp + 1..notified[k].timestamp - 1 :
                    StatusIn(n, notified[j].component) = "OK")
    /\ [](\A n \in DOMAIN metrics_history : \A name \in MetricNames :
            /\ n > 1
            /\ StatusIn(n, name) # "OK"
            /\ StatusIn(n - 1, name) = StatusIn(n, name)
            => \A k \in DOMAIN notified :
                    notified[k].component = name => notified[k].timestamp # n)

\* The CPU was at WARNING in three passes and one alert was raised for it,
\* in the first.
C29_Witness ==
    /\ Len(metrics_history) = 3
    /\ \A n \in 1..3 : StatusIn(n, "system_cpu") = "WARNING"
    /\ Cardinality({k \in DOMAIN notified : notified[k].component = "system_cpu"}) = 1
    /\ <<"system_cpu", "WARNING">> \in DOMAIN active_alerts
    /\ active_alerts[<<"system_cpu", "WARNING">>].timestamp = 1

\* Two alerts are the same alert: raised for the same metric and status in
\* the same pass.
SameAlert(a, b) == a.id = b.id /\ a.timestamp = b.timestamp

\* C30: a metric that reports OK has its active WARNING and CRITICAL alerts
\* removed from active_alerts and appended to alert_history, resolved and
\* with the time of the metric as resolution time; active_alerts holds
\* unresolved alerts only, alert_history resolved ones only, and no alert is
\* in both.
C30_Resolved ==
    /\ [][last'.op = "process_metrics" =>
            \A k \in DOMAIN last'.arg : \A status \in {"WARNING", "CRITICAL"} :
                LET metric == last'.arg[k]
                    alert_id == <<metric.name, status>>
                IN  metric.status = "OK" =>
                        /\ alert_id \notin DOMAIN active_alerts'
                        /\ alert_id \in DOMAIN active_alerts =>
                                \E h \in Len(alert_history) + 1..Len(alert_history') :
                                    /\ SameAlert(alert_history'[h], active_alerts[alert_id])
                                    /\ alert_history'[h].resolved
                                    /\ alert_history'[h].resolution_time
                                            = <<metric.timestamp>>]_vars
    /\ [](\A a \in DOMAIN active_alerts :
            /\ ~active_alerts[a].resolved
            /\ active_alerts[a].resolution_time = <<>>
            /\ active_alerts[a].id = a)
    /\ [](\A h \in DOMAIN alert_history :
            /\ alert_history[h].resolved
            /\ alert_history[h].resolution_time # <<>>)
    /\ [](\A a \in DOMAIN active_alerts, h \in DOMAIN alert_history :
            ~SameAlert(active_alerts[a], alert_history[h]))

\* An OK metric has resolved the WARNING and the CRITICAL alert of the CPU,
\* and a later WARNING has raised a new alert beside the resolved one.
C30_Witness ==
    /\ Len(alert_history) = 2
    /\ Ids(alert_history) = {<<"system_cpu", "WARNING">>, <<"system_cpu", "CRITICAL">>}
    /\ \A h \in 1..2 : alert_history[h].resolution_time = <<3>>
    /\ DOMAIN active_alerts = {<<"system_cpu", "WARNING">>}
    /\ active_alerts[<<"system_cpu", "WARNING">>].timestamp = 4

\* The symbol of the asset with this id.
SymbolOf(b, asset_id) == {a.symbol : a \in {x \in b.assets : x.id = asset_id}}

\* The backend events of b that are of one asset, kind and instant with e.
Twins(b, e) ==
    {f \in b.events : /\ SymbolOf(b, f.asset_id) = SymbolOf(b, e.asset_id)
                      /\ f.kind = e.kind
                      /\ f.ingested_at = e.ingested_at}

\* C31: the backend never holds two events of the same asset, kind and
\* timestamp, however bridge processes run one after the other or at the
\* same time, and a run that nothing but its own repetition disturbs counts
\* every event as processed or skipped, none as an error.
C31_NoTwins ==
    /\ \A e \in backend.events : Twins(backend, e) = {e}
    /\ last.op = "process_events" /\ last.arg[3] = None =>
            /\ last.ret.errors = 0
            /\ last.ret.processed + last.ret.skipped = Len(last.arg[1])

\* The events of the batch evs whose series has an entry in the mapping
\* configuration.
Mapped(evs) == {i \in 1..Len(evs) : evs[i].series_id \in DOMAIN Router}

\* C32: a call of process_events with dry_run set leaves assets, backend
\* events, indicators and scores as they were, and returns the number of
\* mapped events as processed, the number of unmapped events as skipped and
\* no error.
C32_DryRun ==
    [][runs' # runs /\ last'.arg[2] =>
            /\ backend' = backend
            /\ last'.ret = [processed |-> Cardinality(Mapped(last'.arg[1])),
                            skipped |-> Len(last'.arg[1]) - Cardinality(Mapped(last'.arg[1])),
                            errors |-> 0]]_vars

\* A dry run over a mapped event that the backend holds already and an
\* unmapped one.
C32_Witness ==
    /\ last.op = "process_events"
    /\ last.arg[2]
    /\ last.ret.processed = 1
    /\ last.ret.skipped = 1
    /\ \E i \in Mapped(last.arg[1]) :
            \E e \in backend.events : e.series_id = last.arg[1][i].series_id
                                      /\ e.vintage = last.arg[1][i].vintage
                                      /\ e.ingested_at = Transformed(last.arg[1][i])[1].timestamp

\* The backend events and the indicators that b holds for the scraper
\* event: those of its asset and release instant with its series and
\* vintage in their metadata.
EventsFor(b, event) ==
    {e \in b.events : /\ SymbolOf(b, e.asset_id) = {Transformed(event)[1].asset_symbol}
                      /\ e.kind = "indicator"
                      /\ e.ingested_at = Transformed(event)[1].timestamp
                      /\ e.series_id = event.series_id
                      /\ e.vintage = event.vintage}

IndicatorsFor(b, event) ==
    {i \in b.indicators : /\ SymbolOf(b, i.asset_id) = {Transformed(event)[1].asset_symbol}
                          /\ i.key = Transformed(event)[1].key
                          /\ i.ts = Transformed(event)[1].timestamp
                          /\ i.series_id = event.series_id
                          /\ i.vintage = event.vintage}

\* C33: after a call of process_events in which an event failed (counted
\* under errors), the backend holds both a backend event and an indicator
\* for that event or neither of them.
C33_Atomic ==
    last.op = "process_events" /\ last.ret.errors > 0 =>
        (EventsFor(backend, last.arg[1][1]) = {}
            <=> IndicatorsFor(backend, last.arg[1][1]) = {})

\* C34: after a call of process_events in which nothing failed, the backend
\* holds a backend event and an indicator of its own for every mapped event
\* of the batch, whatever other series of the asset or other vintages were
\* released at the same instant.
C34_OwnEvent ==
    last.op = "process_events" /\ ~last.arg[2] /\ last.arg[3] = None =>
        \A i \in Mapped(last.arg[1]) :
            /\ EventsFor(backend, last.arg[1][i]) # {}
            /\ IndicatorsFor(backend, last.arg[1][i]) # {}

\* C35: whatever unit a value was released in, category_score finds no
\* percent sign in the text of an event's actual value and takes the
\* surprise of every event in absolute mode: actual - consensus, and 0
\* without a consensus.
C35_AbsoluteMode ==
    last.op = "run" =>
        /\ \A i \in DOMAIN last.arg[2] : ~HasPercent(last.arg[2][i][1].actual)
        /\ last.effect.surprises = DueSurprises(last.arg[2])

\* A value released as a percentage was stored as a ratio below 1 and
\* scored together with an earlier release; its surprise is not 0.
C35_Witness ==
    /\ last.op = "run"
    /\ lower(last.arg[1].unit) = "percent"
    /\ Len(last.arg[2]) = 2
    /\ last.arg[2][2][1].actual = Hundredth(last.arg[1].actual)
    /\ last.arg[2][2][1].actual < Unit
    /\ last.effect.surprises[2] # 0
====
